---- MODULE Spec2Model ----
(***************************************************************************)
(* Reconciliation of GitHub issues with Notion task pages                  *)
(* (src/src/sync.ts, src/src/properties.ts).                               *)
(*                                                                         *)
(* JavaScript values are represented as follows.                           *)
(*   - a string the code only compares, tests for emptiness or joins is a  *)
(*     TLA+ string; null and undefined of a string-typed slot are Null;    *)
(*   - a label name, on which the code calls toLowerCase(), is a sequence  *)
(*     of one-character strings;                                           *)
(*   - an object is a record with exactly the keys the code gives it, so   *)
(*     that "prop.type" of an object built without a type key is           *)
(*     undefined ("type" \notin DOMAIN prop);                              *)
(*   - a property map (CustomValueMap, page.properties) is a function from *)
(*     the Notion field names it holds to property objects;                *)
(*   - a custom field value (string | number | null) is a tagged record.   *)
(***************************************************************************)
EXTENDS Integers, Sequences, FiniteSets, TLC

VARIABLES
  ghIssues,        \* upstream: the issue nodes the GitHub repository returns
  ghProjects,      \* upstream: the projectsV2 nodes, in response order
  notionUsers,     \* Notion users relation database: its rows
  notionProjects,  \* Notion projects relation table (valid rows)
  mirror,          \* Notion task database: sequence of pages
  inputs,          \* the action inputs the workflow supplies (non-empty ones)
  context,         \* github.context of the workflow run and GITHUB_REPOSITORY
  pc,              \* position of the run
  run,             \* number of the run in progress
  failure,         \* how the run failed, if it did
  cursor,          \* getGitHubIssues: cursor of the next page request
  issues,          \* getGitHubIssues: the issues collected / its result
  issuePages,      \* result of getIssuePagesAlreadyInNotion
  notionRelations, \* result of getNotionRelations
  idx,             \* index of the issue the for loop is at
  pending,         \* the awaited pages.create / pages.update request
  fetches,         \* log of the read requests issued
  calls,           \* log of the pages.create / pages.update requests issued
  info,            \* log of the core.info lines that report an issue's outcome
  overlapping,     \* a second run of the workflow in progress, while suspended
  argExistingPage,  \* needsNotionPageUpdate called on its own: existingPage
  argNewProperties, \* needsNotionPageUpdate called on its own: newProperties
  returned          \* a function called on its own: its result

\* what the upstream systems and the workflow hold
world == <<ghIssues, ghProjects, notionUsers, notionProjects, inputs, context>>

\* the call of a function checked on its own
diff == <<argExistingPage, argNewProperties, returned>>

\* what no step of a run changes
aside == <<diff, overlapping>>

vars == <<world, mirror, pc, run, failure, cursor, issues, issuePages,
          notionRelations, idx, pending, fetches, calls, info, aside>>

-----------------------------------------------------------------------------
(* Bounds *)

MaxIssues == 2
MaxLabels == 2
MaxProjects == 2
MaxRuns == 2
IssuesPerPage == 1
MaxBoards == 3
MaxOptions == 2
ItemsPerPage == 2
FieldValuesPerPage == 3
RelationsPerPage == 3

-----------------------------------------------------------------------------
(* Strings *)

Null == "<null>"

UpperChars == <<"A","B","C","D","E","F","G","H","I","J","K","L","M",
                "N","O","P","Q","R","S","T","U","V","W","X","Y","Z">>
LowerChars == <<"a","b","c","d","e","f","g","h","i","j","k","l","m",
                "n","o","p","q","r","s","t","u","v","w","x","y","z">>

toLowerCaseChar(c) ==
  IF \E i \in DOMAIN UpperChars : UpperChars[i] = c
  THEN LowerChars[CHOOSE i \in DOMAIN UpperChars : UpperChars[i] = c]
  ELSE c

\* the label name compared as it is
toLowerCaseOmitted(s) == s

toLowerCase(s) == [i \in DOMAIN s |-> toLowerCaseChar(s[i])]

blocked == <<"b","l","o","c","k","e","d">>
duplicate == <<"d","u","p","l","i","c","a","t","e">>

RECURSIVE join(_, _)
join(seq, sep) ==
  IF Len(seq) = 0 THEN ""
  ELSE IF Len(seq) = 1 THEN seq[1]
  ELSE seq[1] \o sep \o join(Tail(seq), sep)

Digits == <<"0","1","2","3","4","5","6","7","8","9">>

RECURSIVE NatToString(_)
NatToString(n) ==
  IF n < 10 THEN Digits[n + 1]
  ELSE NatToString(n \div 10) \o Digits[(n % 10) + 1]

String(n) == IF n < 0 THEN "-" \o NatToString(0 - n) ELSE NatToString(n)

\* Code-unit order of the option names and identifiers the properties hold.
IdOrder == <<"bug", "proj-a", "proj-b", "proj-c", "ui", "urgent",
             "user-a", "user-b", "user-c">>

IdRank(s) == CHOOSE i \in DOMAIN IdOrder : IdOrder[i] = s

RECURSIVE insertSorted(_, _)
insertSorted(x, seq) ==
  IF Len(seq) = 0 THEN <<x>>
  ELSE IF IdRank(x) < IdRank(Head(seq)) THEN <<x>> \o seq
  ELSE <<Head(seq)>> \o insertSorted(x, Tail(seq))

RECURSIVE sort(_)
sort(seq) ==
  IF Len(seq) = 0 THEN <<>>
  ELSE insertSorted(Head(seq), sort(Tail(seq)))

-----------------------------------------------------------------------------
(* JavaScript values of type string | number | null | undefined *)

Str(s) == [t |-> "string", v |-> s]
Num(n) == [t |-> "number", v |-> n]
JsNull == [t |-> "null", v |-> 0]
Undefined == [t |-> "undefined", v |-> 0]

Truthy(x) ==
  \/ x.t = "string" /\ x.v # ""
  \/ x.t = "number" /\ x.v # 0

IsString(x, s) == x.t = "string" /\ x.v = s

-----------------------------------------------------------------------------
(* properties.ts *)

Name == "Name"
Description == "Description"
Status == "Status"
Repository == "Github repository"
Assignee == "Assignee"
GithubIssue == "Github issue"
Project == "Project"
TaskGroup == "Task group"
EstimateHrs == "Estimate hrs"
\* the key the event-payload mapper gives the label names
Labels == "Labels"

\* common.richText: one text run holding the text
richText(t) == <<[type |-> "text", text |-> [content |-> t]]>>

text(t) == [type |-> "rich_text",
            rich_text |-> IF t # "" THEN richText(t) ELSE <<>>]

title(t) == [type |-> "title",
             title |-> <<[type |-> "text", text |-> [content |-> t]]>>]

number(n) == [type |-> "number", number |-> n]

url(u) == [type |-> "url", url |-> u]

multiSelect(names) ==
  [type |-> "multi_select",
   multi_select |-> [i \in DOMAIN names |-> [name |-> names[i]]]]

RECURSIVE personList(_, _)
personList(githubUsernames, userRelations) ==
  IF Len(githubUsernames) = 0 THEN <<>>
  ELSE LET githubUsername == Head(githubUsernames)
           found == {i \in DOMAIN userRelations :
                       userRelations[i].githubUsername = githubUsername}
           rest == personList(Tail(githubUsernames), userRelations)
       IN IF found # {}
          THEN LET relation == userRelations[CHOOSE i \in found :
                                               \A j \in found : i <= j]
               IN <<[id |-> relation.notionUserId, object |-> "user"]>> \o rest
          ELSE rest

\* find() taking the last relation of a username instead of the first
personOfLastRelation(githubUsernames, userRelations) ==
  [people |-> personList(githubUsernames,
                [i \in DOMAIN userRelations |->
                   userRelations[Len(userRelations) + 1 - i]])]

person(githubUsernames, userRelations) ==
  [people |-> personList(githubUsernames, userRelations)]

relation(projectKey, projects) ==
  LET found == {i \in DOMAIN projects :
                  IsString(projectKey, projects[i].projectKey)}
  IN [type |-> "relation",
      relation |-> IF found # {}
                   THEN <<[id |-> projects[CHOOSE i \in found :
                                              \A j \in found : i <= j].id]>>
                   ELSE <<>>]

\* status() without its 'Duplicate' case
statusWithoutDuplicate(githubStatus) ==
  CASE IsString(githubStatus, "In progress") ->
         [status |-> [name |-> "In progress"]]
    [] IsString(githubStatus, "Done") ->
         [status |-> [name |-> "Done"]]
    [] IsString(githubStatus, "In review") ->
         [status |-> [name |-> "To be checked"]]
    [] IsString(githubStatus, "Blocked") ->
         [status |-> [name |-> "Blocked"]]
    [] OTHER ->
         [status |-> [name |-> "Not started"]]

\* status() keeping 'In review' as it is
statusInReviewKept(githubStatus) ==
  CASE IsString(githubStatus, "In progress") ->
         [status |-> [name |-> "In progress"]]
    [] IsString(githubStatus, "Done") ->
         [status |-> [name |-> "Done"]]
    [] IsString(githubStatus, "In review") ->
         [status |-> [name |-> "In review"]]
    [] IsString(githubStatus, "Blocked") ->
         [status |-> [name |-> "Blocked"]]
    [] IsString(githubStatus, "Duplicate") ->
         [status |-> [name |-> "Discarded"]]
    [] OTHER ->
         [status |-> [name |-> "Not started"]]

\* status() passing an unlisted value through
statusPassedThrough(githubStatus) ==
  CASE IsString(githubStatus, "In progress") ->
         [status |-> [name |-> "In progress"]]
    [] IsString(githubStatus, "Done") ->
         [status |-> [name |-> "Done"]]
    [] IsString(githubStatus, "In review") ->
         [status |-> [name |-> "To be checked"]]
    [] IsString(githubStatus, "Blocked") ->
         [status |-> [name |-> "Blocked"]]
    [] IsString(githubStatus, "Duplicate") ->
         [status |-> [name |-> "Discarded"]]
    [] OTHER ->
         [status |-> [name |-> IF githubStatus.t = "string" THEN githubStatus.v
                               ELSE "Not started"]]

\* status() without its 'In progress' case
statusWithoutInProgress(githubStatus) ==
  CASE IsString(githubStatus, "Done") ->
         [status |-> [name |-> "Done"]]
    [] IsString(githubStatus, "In review") ->
         [status |-> [name |-> "To be checked"]]
    [] IsString(githubStatus, "Blocked") ->
         [status |-> [name |-> "Blocked"]]
    [] IsString(githubStatus, "Duplicate") ->
         [status |-> [name |-> "Discarded"]]
    [] OTHER ->
         [status |-> [name |-> "Not started"]]

status(githubStatus) ==
  CASE IsString(githubStatus, "In progress") ->
         [status |-> [name |-> "In progress"]]
    [] IsString(githubStatus, "Done") ->
         [status |-> [name |-> "Done"]]
    [] IsString(githubStatus, "In review") ->
         [status |-> [name |-> "To be checked"]]
    [] IsString(githubStatus, "Blocked") ->
         [status |-> [name |-> "Blocked"]]
    [] IsString(githubStatus, "Duplicate") ->
         [status |-> [name |-> "Discarded"]]
    [] OTHER ->
         [status |-> [name |-> "Not started"]]

-----------------------------------------------------------------------------
(* sync.ts: status rule, project lookup, value mapper *)

\* the label rules tried before the state rule
labelsBeforeState(issue, GithubProject) ==
  IF \E i \in DOMAIN issue.labels.nodes :
       toLowerCase(issue.labels.nodes[i].name) = blocked
  THEN Str("Blocked")
  ELSE IF \E i \in DOMAIN issue.labels.nodes :
            toLowerCase(issue.labels.nodes[i].name) = duplicate
  THEN Str("Duplicate")
  ELSE IF issue.state = "CLOSED" THEN Str("Done")
  ELSE IF /\ "customFields" \in DOMAIN GithubProject
          /\ "Status" \in DOMAIN GithubProject.customFields
          /\ Truthy(GithubProject.customFields["Status"])
  THEN GithubProject.customFields["Status"]
  ELSE JsNull

getNotionStatusFromGithubIssue(issue, GithubProject) ==
  IF issue.state = "CLOSED" THEN Str("Done")
  ELSE IF \E i \in DOMAIN issue.labels.nodes :
            toLowerCase(issue.labels.nodes[i].name) = blocked
  THEN Str("Blocked")
  ELSE IF \E i \in DOMAIN issue.labels.nodes :
            toLowerCase(issue.labels.nodes[i].name) = duplicate
  THEN Str("Duplicate")
  ELSE IF /\ "customFields" \in DOMAIN GithubProject
          /\ "Status" \in DOMAIN GithubProject.customFields
          /\ Truthy(GithubProject.customFields["Status"])
  THEN GithubProject.customFields["Status"]
  ELSE JsNull

\* the first n elements of a connection: what GitHub returns for (first: n)
first(nodes, n) == SubSeq(nodes, 1, IF n < Len(nodes) THEN n ELSE Len(nodes))

\* the nodes the projectsV2 pages of getProject return: the query asks for
\* items(first: ...) and fieldValues(first: ...) and for no cursor of either
projectsV2(projects) ==
  [p \in DOMAIN projects |->
     LET items == first(projects[p].items.nodes, ItemsPerPage)
     IN [projects[p] EXCEPT !.items.nodes =
           [i \in DOMAIN items |->
              [items[i] EXCEPT !.fieldValues.nodes =
                 first(items[i].fieldValues.nodes, FieldValuesPerPage)]]]]

\* queryProjects.sort((a, b) => a.number - b.number): a stable sort
RECURSIVE insertByNumber(_, _)
insertByNumber(p, seq) ==
  IF Len(seq) = 0 THEN <<p>>
  ELSE IF p.number < Head(seq).number THEN <<p>> \o seq
  ELSE <<Head(seq)>> \o insertByNumber(p, Tail(seq))

RECURSIVE sortByNumber(_)
sortByNumber(seq) ==
  IF Len(seq) = 0 THEN <<>>
  ELSE insertByNumber(seq[Len(seq)], sortByNumber(SubSeq(seq, 1, Len(seq) - 1)))

\* the value getProject stores for one fieldValues node
fieldValueOf(fieldValue) ==
  IF "number" \in DOMAIN fieldValue THEN Num(fieldValue.number)
  ELSE IF "text" \in DOMAIN fieldValue THEN Str(fieldValue.text)
  ELSE IF "name" \in DOMAIN fieldValue THEN Str(fieldValue.name)
  ELSE JsNull

RECURSIVE customFieldsOf(_)
customFieldsOf(nodes) ==
  IF Len(nodes) = 0 THEN <<>>
  ELSE LET fieldValue == nodes[Len(nodes)]
           before == customFieldsOf(SubSeq(nodes, 1, Len(nodes) - 1))
       IN IF "field" \in DOMAIN fieldValue
          THEN (fieldValue.field.name :> fieldValueOf(fieldValue)) @@ before
          ELSE before

UndefinedProject == [undefined |-> TRUE]

matchingItems(project, issueNumber) ==
  {i \in DOMAIN project.items.nodes :
     /\ "content" \in DOMAIN project.items.nodes[i]
     /\ project.items.nodes[i].content.issueNumber = issueNumber}

getProject(queryProjects, issueNumber) ==
  LET sorted == sortByNumber(queryProjects)
      hits == {k \in DOMAIN sorted : matchingItems(sorted[k], issueNumber) # {}}
  IN IF hits = {} THEN UndefinedProject
     ELSE LET project == sorted[CHOOSE k \in hits : \A j \in hits : k <= j]
              m == matchingItems(project, issueNumber)
              item == project.items.nodes[CHOOSE i \in m : \A j \in m : i <= j]
          IN [name |-> project.title,
              url |-> project.url,
              customFields |-> customFieldsOf(item.fieldValues.nodes)]

customField(project, fieldName) ==
  IF /\ "customFields" \in DOMAIN project
     /\ fieldName \in DOMAIN project.customFields
  THEN project.customFields[fieldName]
  ELSE Undefined

\* issue.repository.url.split('/'): the url is held as its segments
repoOf(issue) ==
  LET segments == issue.repository.url
      reporistoryFullName ==
        SubSeq(segments, Len(segments) - 1, Len(segments))
  IN reporistoryFullName[2]

getPropertiesFromIssueOrGithubProject(issue, relations, queryProjects) ==
  LET project == getProject(queryProjects, issue.number)
      valueMap ==
        (Name :> title(issue.title))
        @@ (Description :> text(IF issue.body = Null THEN "" ELSE issue.body))
        @@ (Status :> status(getNotionStatusFromGithubIssue(issue, project)))
        @@ (Repository :> text(repoOf(issue)))
        @@ (Assignee :> person([i \in DOMAIN issue.assignees.nodes |->
                                   issue.assignees.nodes[i].login],
                               relations.users))
        @@ (GithubIssue :> url(issue.html_url))
        @@ (Project :> relation(customField(project, "Project KEY"),
                                relations.projects))
        @@ (TaskGroup :> text("Development"))
  IN IF Truthy(customField(project, "Estimate"))
     THEN (EstimateHrs :> number(customField(project, "Estimate"))) @@ valueMap
     ELSE valueMap

-----------------------------------------------------------------------------
(* sync.ts: diff engine *)

textRunContent(t) ==
  IF "plain_text" \in DOMAIN t THEN t.plain_text
  ELSE IF "text" \in DOMAIN t THEN t.text.content
  ELSE ""

\* the collections joined in the order they are held
extractComparableValueUnsorted(prop) ==
  IF "type" \notin DOMAIN prop THEN ""
  ELSE CASE prop.type = "title" ->
              join([i \in DOMAIN prop.title |-> textRunContent(prop.title[i])], " ")
         [] prop.type = "rich_text" ->
              join([i \in DOMAIN prop.rich_text |->
                      textRunContent(prop.rich_text[i])], " ")
         [] prop.type = "select" ->
              IF "name" \in DOMAIN prop.select THEN prop.select.name ELSE ""
         [] prop.type = "multi_select" ->
              join([i \in DOMAIN prop.multi_select |-> prop.multi_select[i].name], ",")
         [] prop.type = "status" ->
              IF "name" \in DOMAIN prop.status THEN prop.status.name ELSE ""
         [] prop.type = "number" ->
              IF prop.number.t = "number" THEN String(prop.number.v) ELSE ""
         [] prop.type = "url" ->
              IF prop.url = Null THEN "" ELSE prop.url
         [] prop.type = "relation" ->
              join([i \in DOMAIN prop.relation |-> prop.relation[i].id], ",")
         [] prop.type = "people" ->
              join([i \in DOMAIN prop.people |-> prop.people[i].id], ",")
         [] prop.type = "date" ->
              IF "start" \in DOMAIN prop.date THEN prop.date.start ELSE ""
         [] prop.type = "checkbox" ->
              IF prop.checkbox THEN "true" ELSE "false"
         [] prop.type = "email" ->
              IF prop.email = Null THEN "" ELSE prop.email
         [] prop.type = "phone_number" ->
              IF prop.phone_number = Null THEN "" ELSE prop.phone_number
         [] OTHER -> ""

extractComparableValue(prop) ==
  IF "type" \notin DOMAIN prop THEN ""
  ELSE CASE prop.type = "title" ->
              join([i \in DOMAIN prop.title |-> textRunContent(prop.title[i])], " ")
         [] prop.type = "rich_text" ->
              join([i \in DOMAIN prop.rich_text |->
                      textRunContent(prop.rich_text[i])], " ")
         [] prop.type = "select" ->
              IF "name" \in DOMAIN prop.select THEN prop.select.name ELSE ""
         [] prop.type = "multi_select" ->
              join(sort([i \in DOMAIN prop.multi_select |->
                           prop.multi_select[i].name]), ",")
         [] prop.type = "status" ->
              IF "name" \in DOMAIN prop.status THEN prop.status.name ELSE ""
         [] prop.type = "number" ->
              IF prop.number.t = "number" THEN String(prop.number.v) ELSE ""
         [] prop.type = "url" ->
              IF prop.url = Null THEN "" ELSE prop.url
         [] prop.type = "relation" ->
              join(sort([i \in DOMAIN prop.relation |-> prop.relation[i].id]), ",")
         [] prop.type = "people" ->
              join(sort([i \in DOMAIN prop.people |-> prop.people[i].id]), ",")
         [] prop.type = "date" ->
              IF "start" \in DOMAIN prop.date THEN prop.date.start ELSE ""
         [] prop.type = "checkbox" ->
              IF prop.checkbox THEN "true" ELSE "false"
         [] prop.type = "email" ->
              IF prop.email = Null THEN "" ELSE prop.email
         [] prop.type = "phone_number" ->
              IF prop.phone_number = Null THEN "" ELSE prop.phone_number
         [] OTHER -> ""

\* the order in which the value mappers insert the keys of a target set
KeyOrder == <<Name, Description, Status, Repository, Assignee, Labels,
              GithubIssue, Project, TaskGroup, EstimateHrs>>

\* Object.keys(obj)
keys(obj) == SelectSeq(KeyOrder, LAMBDA key : key \in DOMAIN obj)

\* the loop over every property of the existing page and of the target
comparesEveryProperty(existingPage, newProperties) ==
  \E key \in (DOMAIN newProperties) \cup (DOMAIN existingPage.properties) :
    \/ key \notin DOMAIN existingPage.properties
    \/ key \notin DOMAIN newProperties
    \/ extractComparableValue(newProperties[key])
         # extractComparableValue(existingPage.properties[key])

\* the loop with a property the existing page lacks passed over
missingPropertySkipped(existingPage, newProperties) ==
  \E key \in (DOMAIN newProperties) \cap (DOMAIN existingPage.properties) :
    extractComparableValue(newProperties[key])
      # extractComparableValue(existingPage.properties[key])

\* the for loop of needsNotionPageUpdate from the given keys on
RECURSIVE needsUpdateFrom(_, _, _)
needsUpdateFrom(remaining, existingPage, newProperties) ==
  IF Len(remaining) = 0 THEN FALSE
  ELSE LET key == Head(remaining)
       IN IF key \notin DOMAIN existingPage.properties THEN TRUE
          ELSE IF extractComparableValue(newProperties[key])
                    # extractComparableValue(existingPage.properties[key])
          THEN TRUE
          ELSE needsUpdateFrom(Tail(remaining), existingPage, newProperties)

needsNotionPageUpdate(existingPage, newProperties) ==
  needsUpdateFrom(keys(newProperties), existingPage, newProperties)

getTaskIssueUrls(pages) ==
  [i \in DOMAIN pages |->
     IF /\ GithubIssue \in DOMAIN pages[i].properties
        /\ pages[i].properties[GithubIssue].type = "url"
        /\ pages[i].properties[GithubIssue].url # Null
     THEN pages[i].properties[GithubIssue].url
     ELSE ""]

includes(seq, x) == \E i \in DOMAIN seq : seq[i] = x

indexOf(seq, x) == CHOOSE i \in DOMAIN seq : seq[i] = x /\ \A j \in 1..(i - 1) : seq[j] # x

-----------------------------------------------------------------------------
(* The Notion task database behind pages.create / pages.update / query *)

NullObject == [null |-> TRUE]

storedTextRuns(runs) ==
  [i \in DOMAIN runs |->
     [type |-> "text", text |-> runs[i].text, plain_text |-> runs[i].text.content]]

\* the property object a page response holds for a written property
storedProperty(prop) ==
  IF "title" \in DOMAIN prop
  THEN [type |-> "title", title |-> storedTextRuns(prop.title)]
  ELSE IF "rich_text" \in DOMAIN prop
  THEN [type |-> "rich_text", rich_text |-> storedTextRuns(prop.rich_text)]
  ELSE IF "status" \in DOMAIN prop
  THEN [type |-> "status", status |-> prop.status]
  ELSE IF "people" \in DOMAIN prop
  THEN [type |-> "people", people |-> prop.people]
  ELSE prop

emptyRow == (EstimateHrs :> number(JsNull))

writtenProperties(old, new) ==
  [k \in (DOMAIN old) \cup (DOMAIN new) |->
     IF k \in DOMAIN new THEN storedProperty(new[k]) ELSE old[k]]

pageId(n) == "page-" \o String(n)

NoRequest == [op |-> "none"]

\* no second run of the workflow is in progress
NoRun == [pc |-> "none"]

-----------------------------------------------------------------------------
(* Upstream and mirror contents a run can meet *)

RepositoryUrl == <<"https:", "", "github.com", "Gisat", "ptr">>

issueUrl(n) == "https://github.com/Gisat/ptr/issues/" \o String(n)

Issue(n, state, labels, assignees, issueType) ==
  [number |-> n,
   title |-> "Issue " \o String(n),
   state |-> state,
   body |-> IF n % 2 = 0 THEN Null ELSE "Steps to reproduce",
   repository |-> [url |-> RepositoryUrl],
   html_url |-> issueUrl(n),
   assignees |-> [nodes |-> [i \in DOMAIN assignees |-> [login |-> assignees[i]]]],
   labels |-> [nodes |-> [i \in DOMAIN labels |-> [name |-> labels[i]]]],
   issueType |-> issueType]

States == {"OPEN", "CLOSED"}

LabelNames == {<<"B","l","o","c","k","e","d">>,
               <<"D","U","P","L","I","C","A","T","E">>,
               <<"d","u","p","l","i","c","a","t","e">>,
               <<"b","u","g">>}

SeqsUpTo(S, n) == UNION {[1..k -> S] : k \in 0..n}

LabelLists == SeqsUpTo(LabelNames, MaxLabels)

ProjectStatuses == {"In progress", "In review", "Todo", "Backlog",
                    "Done", "Blocked", "Duplicate"}

StatusValue(s) == [field |-> [name |-> "Status"], name |-> s]
EstimateValue(n) == [field |-> [name |-> "Estimate"], number |-> n]
ProjectKeyValue(k) == [field |-> [name |-> "Project KEY"], text |-> k]

ProjectNode(n, issueNumber, fieldValues) ==
  [number |-> n,
   title |-> "Board " \o String(n),
   url |-> "https://github.com/orgs/Gisat/projects/" \o String(n),
   items |-> [nodes |-> <<[content |-> [issueNumber |-> issueNumber,
                                         state |-> "OPEN"],
                           fieldValues |-> [nodes |-> fieldValues]],
                          [fieldValues |-> [nodes |-> <<StatusValue("Ideas")>>]]>>]]

UserRelations ==
  <<[githubUsername |-> "alice", notionUserId |-> "user-b"],
    [githubUsername |-> "bob", notionUserId |-> "user-a"],
    [githubUsername |-> "alice", notionUserId |-> "user-c"]>>

ProjectRelations == <<[id |-> "proj-a", projectKey |-> "K1"]>>

Relations == [users |-> UserRelations, projects |-> ProjectRelations]

\* a row of the users relation database: the 'GitHub' url property, as its
\* '/'-separated segments (none for a null url), and the 'Name' people property
UserRow(link, people) ==
  [object |-> "page",
   properties |-> [GitHub |-> [type |-> "url", url |-> link],
                   Name |-> [type |-> "people", people |-> people]]]

profileUrl(githubUsername) == <<"https:", "", "github.com", githubUsername>>

notionUser(id) == [object |-> "user", type |-> "person", id |-> id]

\* the rows that resolve to UserRelations
UserRows ==
  [i \in DOMAIN UserRelations |->
     UserRow(profileUrl(UserRelations[i].githubUsername),
             <<notionUser(UserRelations[i].notionUserId)>>)]

\* rows that resolve to nothing: no url, no people, a url that ends in '/'
UnresolvedRows ==
  <<UserRow(<<>>, <<notionUser("user-a")>>),
    UserRow(profileUrl("bob"), <<>>),
    UserRow(profileUrl("bob") \o <<"">>, <<notionUser("user-a")>>)>>

\* url.split('/').pop()
pop(segments) == segments[Len(segments)]

\* the test of nameProp.people.find: a user with an id, in the earlier variant
\* of type 'person'
accepts(p, personsOnly) ==
  /\ p.object = "user"
  /\ personsOnly => p.type = "person"
  /\ p.id # ""

\* people.find(...)
find(people, personsOnly) ==
  LET found == SelectSeq(people, LAMBDA p : accepts(p, personsOnly))
  IN IF found = <<>> THEN Undefined ELSE found[1]

\* the relations pushed for the results of one databases.query response
relationsOf(results, personsOnly) ==
  LET resolves(result) ==
        /\ result.object = "page"
        /\ result.properties.GitHub.type = "url"
        /\ result.properties.GitHub.url # <<>>
        /\ result.properties.Name.type = "people"
        /\ Len(result.properties.Name.people) > 0
        /\ find(result.properties.Name.people, personsOnly) # Undefined
        /\ pop(result.properties.GitHub.url) # ""
      resolved == SelectSeq(results, resolves)
  IN [i \in DOMAIN resolved |->
        [githubUsername |-> pop(resolved[i].properties.GitHub.url),
         notionUserId |-> find(resolved[i].properties.Name.people, personsOnly).id]]

\* one databases.query without start_cursor: its response holds the first
\* page of the rows
getRelationsBetweenGithubAndNotionUsers(rows) ==
  relationsOf(first(rows, RelationsPerPage), FALSE)

\* the earlier variant, which accepts only people of type 'person'
getRelationsBetweenGithubAndNotionPersons(rows) ==
  relationsOf(first(rows, RelationsPerPage), TRUE)

\* a page as an earlier run wrote it for the issue, then possibly edited
writtenPage(n, issue, queryProjects) ==
  [id |-> pageId(n),
   properties |->
     writtenProperties(emptyRow,
       getPropertiesFromIssueOrGithubProject(issue, Relations, queryProjects))]

withProperty(page, key, prop) ==
  [page EXCEPT !.properties = (key :> prop) @@ page.properties]

MirrorsFor(issue, queryProjects) ==
  LET page == writtenPage(1, issue, queryProjects)
      cleared == withProperty(withProperty(page,
                   Status, [type |-> "status", status |-> NullObject]),
                   Assignee, [type |-> "people", people |-> <<>>])
  IN {<<>>,
      <<page>>,
      <<cleared>>,
      <<withProperty(cleared, Name, storedProperty(title("Old title")))>>}

StatusProjects ==
  {<<>>, <<ProjectNode(1, 1, <<>>)>>}
  \cup {<<ProjectNode(1, 1, <<StatusValue(st)>>)>> : st \in ProjectStatuses}

\* one issue, every state, label list and project status
StatusInputs ==
  \E st \in States, ls \in LabelLists, ps \in StatusProjects, tracked \in BOOLEAN :
    /\ ghIssues = <<Issue(1, st, ls, <<"alice">>, NullObject)>>
    /\ ghProjects = ps
    /\ mirror = IF tracked
                THEN <<writtenPage(1, Issue(1, "OPEN", <<>>, <<>>, NullObject), <<>>)>>
                ELSE <<>>

\* the field values a board can hold for the Estimate of an item
EstimateFieldValues ==
  {<<>>,
   <<[field |-> [name |-> "Estimate"]]>>,
   <<EstimateValue(0)>>,
   <<EstimateValue(3)>>,
   <<EstimateValue(7)>>,
   <<EstimateValue(0 - 2)>>,
   <<[field |-> [name |-> "Estimate"], text |-> "five"]>>}

\* a null Estimate and two numbers, for an issue held by several boards
SharedEstimateFieldValues ==
  {<<[field |-> [name |-> "Estimate"]]>>, <<EstimateValue(3)>>, <<EstimateValue(7)>>}

\* one open issue on one board with any Estimate, or on up to MaxBoards boards
EstimateInputs ==
  \E es \in [1..1 -> EstimateFieldValues]
            \cup (SeqsUpTo(SharedEstimateFieldValues, MaxBoards)
                    \ SeqsUpTo(SharedEstimateFieldValues, 1)) :
    /\ ghIssues = <<Issue(1, "OPEN", <<>>, <<>>, NullObject)>>
    /\ ghProjects = [i \in DOMAIN es |-> ProjectNode(i, 1, es[i])]
    /\ mirror = <<>>

\* boards 1 and 2 hold issue 1, every further board holds issue 2
ProjectTemplate(n) ==
  ProjectNode(n, IF n <= 2 THEN 1 ELSE 2,
    CASE n = 1 -> <<StatusValue("In progress"), EstimateValue(3),
                    ProjectKeyValue("K1")>>
      [] n = 2 -> <<StatusValue("Todo"), EstimateValue(7),
                    ProjectKeyValue("K9")>>
      [] OTHER -> <<StatusValue("In review"), EstimateValue(0)>>)

\* sequences without repetition of the project templates, in any order
ProjectLists ==
  {ps \in SeqsUpTo(1..(MaxProjects + 1), MaxProjects) :
     \A i, j \in DOMAIN ps : i # j => ps[i] # ps[j]}

IssueVariants(n) ==
  {Issue(n, "OPEN", <<>>, <<"alice", "carol", "bob">>, NullObject),
   Issue(n, "CLOSED", <<>>, <<"carol">>, [name |-> "Bug"]),
   Issue(n, "OPEN", <<>>, <<>>, [name |-> "Feature"])}

IssueLists ==
  {is \in SeqsUpTo(UNION {IssueVariants(n) : n \in 1..MaxIssues}, MaxIssues) :
     \A i \in DOMAIN is : is[i].number = i}

\* several issues and projects
RunInputs ==
  \E is \in IssueLists, ps \in ProjectLists :
    LET queryProjects == [i \in DOMAIN ps |-> ProjectTemplate(ps[i])]
    IN /\ ghIssues = is
       /\ ghProjects = queryProjects
       /\ mirror \in IF Len(is) = 0 THEN {<<>>}
                     ELSE MirrorsFor(is[1], queryProjects)

\* a task entered by hand: its 'Github issue' URL is null, or is empty
unlinkedPage(n, link) ==
  [id |-> pageId(n),
   properties |-> (GithubIssue :> url(link))
                    @@ (Name :> storedProperty(title("Manual task")))
                    @@ emptyRow]

PageKinds == {"null", "empty", "written", "cleared", "second"}

\* the page of a kind at position n of the task database: unlinked, tracking
\* the first issue (as written, or with Status and Assignee cleared), or
\* tracking the second issue
pageOfKind(kind, n, is, queryProjects) ==
  CASE kind = "null" -> unlinkedPage(n, Null)
    [] kind = "empty" -> unlinkedPage(n, "")
    [] kind = "written" -> writtenPage(n, is[1], queryProjects)
    [] kind = "cleared" ->
         withProperty(withProperty(writtenPage(n, is[1], queryProjects),
           Status, [type |-> "status", status |-> NullObject]),
           Assignee, [type |-> "people", people |-> <<>>])
    [] OTHER -> writtenPage(n, is[2], queryProjects)

\* an open and a closed issue in either order
ReaderIssueLists ==
  {is \in IssueLists :
     /\ Len(is) = 2
     /\ \A i \in DOMAIN is : is[i].issueType # [name |-> "Feature"]
     /\ is[1].state # is[2].state}

\* a task database of up to two pages, linked or not, in any order
ReaderInputs ==
  \E is \in ReaderIssueLists, kinds \in SeqsUpTo(PageKinds, 2) :
    LET queryProjects == <<ProjectTemplate(1)>>
    IN /\ ghIssues = is
       /\ ghProjects = queryProjects
       /\ mirror = [i \in DOMAIN kinds |->
                      pageOfKind(kinds[i], i, is, queryProjects)]

\* a users relation database longer than one page of the query: a first page
\* of rows, filled up to the page size with rows that resolve to nothing, and
\* a row for carol after it
RelationInputs ==
  \E st \in States, firstRows \in {UserRows, UnresolvedRows}, tracked \in BOOLEAN :
    /\ ghIssues = <<Issue(1, st, <<>>, <<"carol", "alice">>, NullObject)>>
    /\ ghProjects = <<>>
    /\ mirror = IF tracked
                THEN <<writtenPage(1, Issue(1, "OPEN", <<>>, <<>>, NullObject), <<>>)>>
                ELSE <<>>
    /\ notionUsers =
         [i \in 1..RelationsPerPage |->
            IF i \in DOMAIN firstRows THEN firstRows[i] ELSE UnresolvedRows[1]]
         \o <<UserRow(profileUrl("carol"), <<notionUser("user-a")>>)>>

-----------------------------------------------------------------------------
(* The run: index.ts start, run, syncGithubIssuesWithNotionTasks *)

INPUTS == <<"notion-token", "notion-task-db", "notion-project-db",
            "notion-users-db", "github-token">>

AllInputs == {INPUTS[i] : i \in DOMAIN INPUTS}

\* the message of core.getInput(name, { required: true }) for an absent input
InputRequired(name) == "Input required and not supplied: " \o name

NoRepository == "Unable to find repository name in github webhook context or environment"

NoFailure == [by |-> "none"]

\* core.setFailed(message) in the catch of start()
setFailed(message) == [by |-> "setFailed", message |-> message]

\* an exception no handler catches: the process ends with it
uncaught(message) == [by |-> "uncaught", message |-> message]

\* a workflow_dispatch of the repository with every input supplied
Dispatched ==
  /\ inputs = AllInputs
  /\ context = [eventName |-> "workflow_dispatch",
                full_name |-> "Gisat/ptr",
                GITHUB_REPOSITORY |-> "Gisat/ptr"]

EventNames == {"workflow_dispatch", "schedule", "issues"}

\* one open issue; any inputs left out, any event, any source of the name
ConfigInputs ==
  /\ ghIssues = <<Issue(1, "OPEN", <<>>, <<>>, NullObject)>>
  /\ ghProjects = <<>>
  /\ mirror = <<>>
  /\ inputs \in SUBSET AllInputs
  /\ \E e \in EventNames, f \in {Null, "Gisat/ptr"}, g \in {Null, "", "Gisat/ptr"} :
       context = [eventName |-> e, full_name |-> f, GITHUB_REPOSITORY |-> g]

\* the variables of the separate call of needsNotionPageUpdate, unused by a run
NoCall ==
  /\ argExistingPage = NullObject
  /\ argNewProperties = NullObject
  /\ returned = NullObject

Init ==
  /\ \/ StatusInputs /\ Dispatched /\ notionUsers = UserRows
     \/ RunInputs /\ Dispatched /\ notionUsers = UserRows
     \/ EstimateInputs /\ Dispatched /\ notionUsers = UserRows
     \/ ReaderInputs /\ Dispatched /\ notionUsers = UserRows
     \/ RelationInputs /\ Dispatched
     \/ ConfigInputs /\ notionUsers = UserRows
  /\ notionProjects = ProjectRelations
  /\ pc = "load"
  /\ run = 1
  /\ failure = NoFailure
  /\ cursor = Null
  /\ issues = <<>>
  /\ issuePages = <<>>
  /\ notionRelations = [users |-> <<>>, projects |-> <<>>]
  /\ idx = 0
  /\ pending = NoRequest
  /\ fetches = <<>>
  /\ calls = <<>>
  /\ info = <<>>
  /\ overlapping = NoRun
  /\ NoCall

\* an exception that propagates to the catch of start()
throw(message) ==
  /\ pc' = "failed"
  /\ failure' = setFailed(message)

\* action.ts is loaded by the import of index.ts, outside the try of start()
graphqlWithAuth ==
  /\ pc = "load"
  /\ IF "github-token" \in inputs
     THEN pc' = "start" /\ UNCHANGED failure
     ELSE /\ pc' = "failed"
          /\ failure' = uncaught(InputRequired("github-token"))
  /\ UNCHANGED <<world, mirror, run, cursor, issues, issuePages,
                 notionRelations, idx, pending, fetches, calls, info, aside>>

\* the five core.getInput calls, in order
start ==
  /\ pc = "start"
  /\ LET missing == {i \in DOMAIN INPUTS : INPUTS[i] \notin inputs}
     IN IF missing # {}
        THEN throw(InputRequired(INPUTS[CHOOSE i \in missing :
                                          \A j \in missing : i <= j]))
        ELSE pc' = "run" /\ UNCHANGED failure
  /\ UNCHANGED <<world, mirror, run, cursor, issues, issuePages,
                 notionRelations, idx, pending, fetches, calls, info, aside>>

\* github.payload.repository?.full_name || process.env.GITHUB_REPOSITORY
repoFullName ==
  IF context.full_name \notin {Null, ""} THEN context.full_name
  ELSE context.GITHUB_REPOSITORY

\* run(options) with the test of repoFullName left out
runOptionsUnchecked ==
  /\ pc = "run"
  /\ pc' = IF context.eventName \in {"workflow_dispatch", "schedule"}
           THEN "getIssues" ELSE "done"
  /\ UNCHANGED <<world, mirror, run, failure, cursor, issues, issuePages,
                 notionRelations, idx, pending, fetches, calls, info, aside>>

\* run(options) up to the call of syncGithubIssuesWithNotionTasks
runOptions ==
  /\ pc = "run"
  /\ IF context.eventName \in {"workflow_dispatch", "schedule"}
     THEN IF repoFullName \in {Null, ""}
          THEN throw(NoRepository)
          ELSE pc' = "getIssues" /\ UNCHANGED failure
     ELSE pc' = "done" /\ UNCHANGED failure
  /\ UNCHANGED <<world, mirror, run, cursor, issues, issuePages,
                 notionRelations, idx, pending, fetches, calls, info, aside>>

\* the filter left out: no issue is excluded
featureKept(issue) == FALSE

isFeature(issue) ==
  /\ "name" \in DOMAIN issue.issueType
  /\ issue.issueType.name = "Feature"

\* the cursor GitHub returns with page i of the issues connection
endCursorOf(i) == "cursor-" \o String(i)

PageCount ==
  IF Len(ghIssues) = 0 THEN 1
  ELSE (Len(ghIssues) + IssuesPerPage - 1) \div IssuesPerPage

\* GitHub's answer to issues(first: IssuesPerPage, after: $cursor)
issuesResponse(after) ==
  LET i == IF after = Null THEN 1
           ELSE 1 + CHOOSE j \in 1..PageCount : endCursorOf(j) = after
      from == (i - 1) * IssuesPerPage + 1
      to == IF i * IssuesPerPage < Len(ghIssues) THEN i * IssuesPerPage
            ELSE Len(ghIssues)
  IN [repository |-> [issues |->
       [nodes |-> SubSeq(ghIssues, from, to),
        pageInfo |-> [endCursor |-> IF to < from THEN Null ELSE endCursorOf(i),
                      hasNextPage |-> i < PageCount]]]]

issuesRequest == [api |-> "issues", run |-> run, cursor |-> cursor]

\* a request whose promise rejects
rejected(req) == req @@ [rejected |-> TRUE]

\* hasNextPage not consulted: the loop ends after the first page
getGitHubIssuesFirstPageOnly ==
  /\ pc = "getIssues"
  /\ fetches' = Append(fetches, issuesRequest)
  /\ LET response == issuesResponse(cursor).repository.issues
         pageIssues == SelectSeq(response.nodes, LAMBDA issue : ~isFeature(issue))
     IN /\ issues' = issues \o pageIssues
        /\ cursor' = response.pageInfo.endCursor
        /\ pc' = "getIssuePages"
  /\ UNCHANGED <<world, mirror, run, failure, issuePages, notionRelations, idx,
                 pending, calls, info, aside>>

\* one iteration of the while loop of getGitHubIssues
getGitHubIssues ==
  /\ pc = "getIssues"
  /\ fetches' = Append(fetches, issuesRequest)
  /\ LET response == issuesResponse(cursor).repository.issues
         pageIssues == SelectSeq(response.nodes, LAMBDA issue : ~isFeature(issue))
     IN /\ issues' = issues \o pageIssues
        /\ cursor' = response.pageInfo.endCursor
        /\ pc' = IF response.pageInfo.hasNextPage THEN "getIssues"
                 ELSE "getIssuePages"
  /\ UNCHANGED <<world, mirror, run, failure, issuePages, notionRelations, idx,
                 pending, calls, info, aside>>

\* the rejection caught inside the loop: the issues collected so far are returned
getGitHubIssuesReturnsPartial ==
  /\ pc = "getIssues"
  /\ fetches' = Append(fetches, rejected(issuesRequest))
  /\ pc' = "getIssuePages"
  /\ UNCHANGED <<world, mirror, run, failure, cursor, issues, issuePages,
                 notionRelations, idx, pending, calls, info, aside>>

\* the awaited page request of getGitHubIssues rejects
getGitHubIssuesRejects ==
  /\ pc = "getIssues"
  /\ fetches' = Append(fetches, rejected(issuesRequest))
  /\ throw("GraphqlResponseError")
  /\ UNCHANGED <<world, mirror, run, cursor, issues, issuePages,
                 notionRelations, idx, pending, calls, info, aside>>

\* the filter inverted: 'Github issue' is_empty
urlIsEmpty(page) ==
  \/ GithubIssue \notin DOMAIN page.properties
  \/ page.properties[GithubIssue].type # "url"
  \/ page.properties[GithubIssue].url \in {Null, ""}

urlIsNotEmpty(page) ==
  /\ GithubIssue \in DOMAIN page.properties
  /\ page.properties[GithubIssue].type = "url"
  /\ page.properties[GithubIssue].url # Null
  /\ page.properties[GithubIssue].url # ""

getIssuePagesAlreadyInNotion ==
  /\ pc = "getIssuePages"
  /\ fetches' = Append(fetches, [api |-> "tasks", run |-> run])
  /\ issuePages' = SelectSeq(mirror, urlIsNotEmpty)
  /\ pc' = "getRelations"
  /\ UNCHANGED <<world, mirror, run, failure, cursor, issues, notionRelations,
                 idx, pending, calls, info, aside>>

getNotionRelations ==
  /\ pc = "getRelations"
  /\ fetches' = Append(fetches, [api |-> "relations", run |-> run])
  /\ notionRelations' =
       [users |-> getRelationsBetweenGithubAndNotionUsers(notionUsers),
        projects |-> notionProjects]
  /\ idx' = 1
  /\ pc' = "loop"
  /\ UNCHANGED <<world, mirror, run, failure, cursor, issues, issuePages,
                 pending, calls, info, aside>>

taskIssueUrls == getTaskIssueUrls(issuePages)

inLoop == pc = "loop" /\ idx \in DOMAIN issues

issue == issues[idx]

\* the projectsV2 request getProject issues for the issue of the iteration
getProjectRequest ==
  fetches' = Append(fetches, [api |-> "projects", run |-> run,
                              issueNumber |-> issue.number])

properties ==
  getPropertiesFromIssueOrGithubProject(issue, notionRelations, projectsV2(ghProjects))

alreadyExists == includes(taskIssueUrls, issue.html_url)

\* the page taken from the head of the pages instead of the matching position
firstIssuePage == issuePages[1]

existingPage == issuePages[indexOf(taskIssueUrls, issue.html_url)]

\* the diff result ignored: every existing page is updated
needsUpdateIgnored == TRUE

needsUpdate == needsNotionPageUpdate(existingPage, properties)

\* the state test of the else-if branch dropped
notClosedIgnored == TRUE

notClosed == issue.state # "CLOSED"

request(op, page_id) ==
  [op |-> op, run |-> run, idx |-> idx, page_id |-> page_id,
   properties |-> properties]

\* the request issued without awaiting it
notAwaited(req) ==
  /\ pending' = req
  /\ calls' = Append(calls, req)
  /\ idx' = idx + 1
  /\ UNCHANGED pc

await(req) ==
  /\ pending' = req
  /\ calls' = Append(calls, req)
  /\ pc' = "await"
  /\ UNCHANGED idx

\* core.info(...) of the line that reports what was done with the issue
coreInfo(message) ==
  info' = Append(info, [run |-> run, idx |-> idx, message |-> message])

continue ==
  /\ idx' = idx + 1
  /\ UNCHANGED <<pc, pending, calls>>

updateTask ==
  /\ inLoop
  /\ getProjectRequest
  /\ alreadyExists
  /\ needsUpdate
  /\ await(request("update", existingPage.id))
  /\ UNCHANGED <<world, mirror, run, failure, cursor, issues, issuePages,
                 notionRelations, info, aside>>

noUpdateNeeded ==
  /\ inLoop
  /\ getProjectRequest
  /\ alreadyExists
  /\ ~needsUpdate
  /\ coreInfo("No update needed")
  /\ continue
  /\ UNCHANGED <<world, mirror, run, failure, cursor, issues, issuePages,
                 notionRelations, aside>>

createTask ==
  /\ inLoop
  /\ getProjectRequest
  /\ ~alreadyExists
  /\ notClosed
  /\ await(request("create", Null))
  /\ UNCHANGED <<world, mirror, run, failure, cursor, issues, issuePages,
                 notionRelations, info, aside>>

skipClosedIssue ==
  /\ inLoop
  /\ getProjectRequest
  /\ ~alreadyExists
  /\ ~notClosed
  /\ coreInfo("Skipping closed issue")
  /\ continue
  /\ UNCHANGED <<world, mirror, run, failure, cursor, issues, issuePages,
                 notionRelations, aside>>

pagesUpdate ==
  /\ pc = "await"
  /\ pending.op = "update"
  /\ mirror' = [i \in DOMAIN mirror |->
                  IF mirror[i].id = pending.page_id
                  THEN [mirror[i] EXCEPT !.properties =
                          writtenProperties(@, pending.properties)]
                  ELSE mirror[i]]
  /\ pending' = NoRequest
  /\ coreInfo("Updated task")
  /\ idx' = idx + 1
  /\ pc' = "loop"
  /\ UNCHANGED <<world, run, failure, cursor, issues, issuePages,
                 notionRelations, fetches, calls, aside>>

pagesCreate ==
  /\ pc = "await"
  /\ pending.op = "create"
  /\ mirror' = Append(mirror,
                  [id |-> pageId(Len(mirror) + 1),
                   properties |-> writtenProperties(emptyRow, pending.properties)])
  /\ pending' = NoRequest
  /\ coreInfo("Created task")
  /\ idx' = idx + 1
  /\ pc' = "loop"
  /\ UNCHANGED <<world, run, failure, cursor, issues, issuePages,
                 notionRelations, fetches, calls, aside>>

\* the awaited pages.create / pages.update rejects: nothing in the loop catches it
pagesRequestRejects ==
  /\ pc = "await"
  /\ pending' = NoRequest
  /\ calls' = [calls EXCEPT ![Len(calls)] = rejected(@)]
  /\ throw("APIResponseError")
  /\ UNCHANGED <<world, mirror, run, cursor, issues, issuePages,
                 notionRelations, idx, fetches, info, aside>>

\* the loop left one iteration early
runCompletedEarly ==
  /\ pc = "loop"
  /\ idx >= Len(issues)
  /\ pc' = "done"
  /\ UNCHANGED <<world, mirror, run, failure, cursor, issues, issuePages,
                 notionRelations, idx, pending, fetches, calls, info, aside>>

runCompleted ==
  /\ pc = "loop"
  /\ idx = Len(issues) + 1
  /\ pc' = "done"
  /\ UNCHANGED <<world, mirror, run, failure, cursor, issues, issuePages,
                 notionRelations, idx, pending, fetches, calls, info, aside>>

\* the workflow runs again after a completed run; upstream and relation
\* tables are unchanged
nextRun ==
  /\ pc = "done"
  /\ run < MaxRuns
  /\ run' = run + 1
  /\ pc' = "load"
  /\ failure' = NoFailure
  /\ cursor' = Null
  /\ issues' = <<>>
  /\ issuePages' = <<>>
  /\ notionRelations' = [users |-> <<>>, projects |-> <<>>]
  /\ idx' = 0
  /\ UNCHANGED <<world, mirror, pending, fetches, calls, info, aside>>

Next ==
  \/ graphqlWithAuth
  \/ start
  \/ runOptions
  \/ getGitHubIssues
  \/ getGitHubIssuesRejects
  \/ getIssuePagesAlreadyInNotion
  \/ getNotionRelations
  \/ updateTask
  \/ noUpdateNeeded
  \/ createTask
  \/ skipClosedIssue
  \/ pagesUpdate
  \/ pagesCreate
  \/ pagesRequestRejects
  \/ runCompleted
  \/ nextRun

Spec == Init /\ [][Next]_vars

\* one run in which no request fails: every awaited request is answered and
\* the continuation after it runs
QuietNext ==
  \/ graphqlWithAuth
  \/ start
  \/ runOptions
  \/ getGitHubIssues
  \/ getIssuePagesAlreadyInNotion
  \/ getNotionRelations
  \/ updateTask
  \/ noUpdateNeeded
  \/ createTask
  \/ skipClosedIssue
  \/ pagesUpdate
  \/ pagesCreate
  \/ runCompleted

\* any issues over a task database of up to two pages, linked or not, for a
\* repository without project boards
QuietInputs ==
  \E is \in IssueLists, kinds \in SeqsUpTo(PageKinds \ {"empty"}, 2) :
    /\ \A i \in DOMAIN kinds :
         /\ kinds[i] \in {"written", "cleared"} => Len(is) >= 1
         /\ kinds[i] = "second" => Len(is) >= 2
    /\ ghIssues = is
    /\ ghProjects = <<>>
    /\ mirror = [i \in DOMAIN kinds |-> pageOfKind(kinds[i], i, is, <<>>)]

QuietInit ==
  /\ QuietInputs
  /\ Dispatched
  /\ notionUsers = UserRows
  /\ notionProjects = ProjectRelations
  /\ pc = "load"
  /\ run = 1
  /\ failure = NoFailure
  /\ cursor = Null
  /\ issues = <<>>
  /\ issuePages = <<>>
  /\ notionRelations = [users |-> <<>>, projects |-> <<>>]
  /\ idx = 0
  /\ pending = NoRequest
  /\ fetches = <<>>
  /\ calls = <<>>
  /\ info = <<>>
  /\ overlapping = NoRun
  /\ NoCall

\* each step of a run is the continuation of an awaited request; with every
\* request answered, the step that is enabled is taken
QuietSpec == QuietInit /\ [][QuietNext]_vars /\ WF_vars(QuietNext)

-----------------------------------------------------------------------------
(* Two runs of the workflow that overlap, e.g. a manual dispatch during a     *)
(* scheduled run. Each is a process of its own; the steps that touch only a   *)
(* run's own state and GitHub commute with the other run's steps, so the runs *)
(* hand over only where the order matters: before a read of the task          *)
(* database, while a write to it is awaited, and at the end of a run.         *)

\* the state of a run that has just been triggered
triggered(n) ==
  [pc |-> "load", run |-> n, failure |-> NoFailure, cursor |-> Null,
   issues |-> <<>>, issuePages |-> <<>>,
   notionRelations |-> [users |-> <<>>, projects |-> <<>>],
   idx |-> 0, pending |-> NoRequest]

\* one board; any issue list; issue 1 tracked or not
RaceInputs ==
  \E is \in IssueLists :
    LET queryProjects == <<ProjectTemplate(1)>>
    IN /\ ghIssues = is
       /\ ghProjects = queryProjects
       /\ mirror \in IF Len(is) = 0 THEN {<<>>}
                     ELSE MirrorsFor(is[1], queryProjects)

RaceInit ==
  /\ RaceInputs
  /\ Dispatched
  /\ notionUsers = UserRows
  /\ notionProjects = ProjectRelations
  /\ pc = "load"
  /\ run = 1
  /\ failure = NoFailure
  /\ cursor = Null
  /\ issues = <<>>
  /\ issuePages = <<>>
  /\ notionRelations = [users |-> <<>>, projects |-> <<>>]
  /\ idx = 0
  /\ pending = NoRequest
  /\ fetches = <<>>
  /\ calls = <<>>
  /\ info = <<>>
  /\ overlapping = triggered(2)
  /\ NoCall

\* a run that has read the task database is not suspended before it has ended
exclusive == pc # "await"

\* nothing in start, run or syncGithubIssuesWithNotionTasks makes a run wait
\* for another one
unguarded == TRUE

\* the running process is suspended and the overlapping run goes on
resume ==
  /\ overlapping # NoRun
  /\ overlapping.pc # "done"
  /\ pc \in {"getIssuePages", "await", "done"}
  /\ unguarded
  /\ overlapping' = [pc |-> pc, run |-> run, failure |-> failure,
                     cursor |-> cursor, issues |-> issues,
                     issuePages |-> issuePages,
                     notionRelations |-> notionRelations,
                     idx |-> idx, pending |-> pending]
  /\ pc' = overlapping.pc
  /\ run' = overlapping.run
  /\ failure' = overlapping.failure
  /\ cursor' = overlapping.cursor
  /\ issues' = overlapping.issues
  /\ issuePages' = overlapping.issuePages
  /\ notionRelations' = overlapping.notionRelations
  /\ idx' = overlapping.idx
  /\ pending' = overlapping.pending
  /\ UNCHANGED <<world, mirror, fetches, calls, info, diff>>

RaceNext ==
  \/ graphqlWithAuth
  \/ start
  \/ runOptions
  \/ getGitHubIssues
  \/ getIssuePagesAlreadyInNotion
  \/ getNotionRelations
  \/ updateTask
  \/ noUpdateNeeded
  \/ createTask
  \/ skipClosedIssue
  \/ pagesUpdate
  \/ pagesCreate
  \/ runCompleted
  \/ resume

RaceSpec == RaceInit /\ [][RaceNext]_vars

-----------------------------------------------------------------------------
(* getGitHubIssues called on its own, on a repository of several pages; every *)
(* page request is answered, and an answered request lets the loop go on.    *)

\* issue lists of one page more than a run meets above
FetchInputs ==
  \E is \in SeqsUpTo(UNION {IssueVariants(n) : n \in 1..(MaxIssues + 1)},
                     MaxIssues + 1) :
    /\ \A i \in DOMAIN is : is[i].number = i
    /\ ghIssues = is

FetchInit ==
  /\ FetchInputs
  /\ ghProjects = <<>>
  /\ mirror = <<>>
  /\ Dispatched
  /\ notionUsers = UserRows
  /\ notionProjects = ProjectRelations
  /\ pc = "getIssues"
  /\ run = 1
  /\ failure = NoFailure
  /\ cursor = Null
  /\ issues = <<>>
  /\ issuePages = <<>>
  /\ notionRelations = [users |-> <<>>, projects |-> <<>>]
  /\ idx = 0
  /\ pending = NoRequest
  /\ fetches = <<>>
  /\ calls = <<>>
  /\ info = <<>>
  /\ overlapping = NoRun
  /\ NoCall

FetchNext == getGitHubIssues

FetchSpec == FetchInit /\ [][FetchNext]_vars /\ WF_vars(getGitHubIssues)

-----------------------------------------------------------------------------
(* action.ts: getGithubOgranizationProjects, the organization-scope fetch *)

\* a nested cursor loop: the first page, then the pages after it while the
\* last one reports hasNextPage
RECURSIVE drain(_, _)
drain(nodes, perPage) ==
  IF Len(nodes) <= perPage THEN nodes
  ELSE first(nodes, perPage)
       \o drain(SubSeq(nodes, perPage + 1, Len(nodes)), perPage)

isClosed(project) == "closed" \in DOMAIN project /\ project.closed

organizationFieldValueOf(fieldValue) ==
  IF "name" \in DOMAIN fieldValue THEN Str(fieldValue.name)
  ELSE IF "text" \in DOMAIN fieldValue THEN Str(fieldValue.text)
  ELSE Num(fieldValue.number)

RECURSIVE organizationFieldsOf(_)
organizationFieldsOf(nodes) ==
  IF Len(nodes) = 0 THEN <<>>
  ELSE LET fieldValue == nodes[Len(nodes)]
           before == organizationFieldsOf(SubSeq(nodes, 1, Len(nodes) - 1))
       IN IF /\ "field" \in DOMAIN fieldValue
             /\ DOMAIN fieldValue \cap {"name", "text", "number"} # {}
          THEN (fieldValue.field.name :> organizationFieldValueOf(fieldValue))
               @@ before
          ELSE before

\* the result without notionId and the issue ids
getGithubOgranizationProjects(projects) ==
  LET active == SelectSeq(projects, LAMBDA project : ~isClosed(project))
      queryProjects ==
        sortByNumber(
          [p \in DOMAIN active |->
             LET items == drain(active[p].items.nodes, ItemsPerPage)
             IN [active[p] EXCEPT !.items.nodes =
                   [i \in DOMAIN items |->
                      [items[i] EXCEPT !.fieldValues.nodes =
                         drain(items[i].fieldValues.nodes, FieldValuesPerPage)]]]])
  IN [p \in DOMAIN queryProjects |->
        [name |-> queryProjects[p].title,
         url |-> queryProjects[p].url,
         issues |->
           [i \in DOMAIN queryProjects[p].items.nodes |->
              LET item == queryProjects[p].items.nodes[i]
              IN [issueNumber |-> IF "content" \in DOMAIN item
                                  THEN item.content.issueNumber ELSE 0,
                  state |-> IF "content" \in DOMAIN item
                            THEN item.content.state ELSE "UNKNOWN",
                  customFields |-> organizationFieldsOf(item.fieldValues.nodes)]]]]

-----------------------------------------------------------------------------
(* needsNotionPageUpdate called on its own, on any existing page and target *)

Arrangements(S) ==
  {seq \in SeqsUpTo(S, MaxOptions) :
     \A i, j \in DOMAIN seq : i # j => seq[i] # seq[j]}

CollectionKeys == {Labels, Project, Assignee}

MembersOf(key) ==
  CASE key = Labels -> {"bug", "ui", "urgent"}
    [] key = Project -> {"proj-a", "proj-b", "proj-c"}
    [] key = Assignee -> {"user-a", "user-b", "user-c"}

\* a multi_select, relation or people property holding the members in order
collection(key, members) ==
  CASE key = Labels -> multiSelect(members)
    [] key = Project ->
         [type |-> "relation",
          relation |-> [i \in DOMAIN members |-> [id |-> members[i]]]]
    [] key = Assignee ->
         [type |-> "people",
          people |-> [i \in DOMAIN members |->
                        [id |-> members[i], object |-> "user"]]]

\* the people value as properties.person builds it
personOf(members) ==
  [people |-> [i \in DOMAIN members |-> [id |-> members[i], object |-> "user"]]]

ExistingCollections(key) ==
  {<<>>} \cup {key :> collection(key, m) : m \in Arrangements(MembersOf(key))}

TargetCollections(key) ==
  {<<>>}
  \cup {key :> collection(key, m) : m \in Arrangements(MembersOf(key))}
  \cup IF key = Assignee
       THEN {key :> personOf(m) : m \in Arrangements(MembersOf(key))}
       ELSE {}

ExistingStatuses ==
  {<<>>,
   Status :> [type |-> "status", status |-> [name |-> "Done"]],
   Status :> [type |-> "status", status |-> NullObject]}

TargetStatuses == {<<>>, Status :> status(Str("Done"))}

ExistingEstimates == {number(JsNull), number(Num(3)), number(Num(7))}

ExistingScalars(key) ==
  {<<>>}
  \cup IF key = Name
       THEN {key :> storedProperty(title("Issue 1")),
             key :> storedProperty(title("Old title"))}
       ELSE {key :> e : e \in ExistingEstimates}

TargetScalars(key) ==
  {<<>>, IF key = Name THEN key :> title("Issue 1") ELSE key :> number(Num(3))}

DiffInputs ==
  \E key \in CollectionKeys, scalar \in {Name, EstimateHrs} :
    \E ec \in ExistingCollections(key), tc \in TargetCollections(key),
       es \in ExistingStatuses, ts \in TargetStatuses,
       ex \in ExistingScalars(scalar), tx \in TargetScalars(scalar) :
      /\ argExistingPage = [id |-> pageId(1), properties |-> ec @@ es @@ ex]
      /\ argNewProperties = tc @@ ts @@ tx

DiffInit ==
  /\ DiffInputs
  /\ returned = NullObject
  /\ pc = "call"
  /\ ghIssues = <<>>
  /\ ghProjects = <<>>
  /\ notionUsers = <<>>
  /\ notionProjects = <<>>
  /\ mirror = <<>>
  /\ inputs = {}
  /\ context = NullObject
  /\ run = 1
  /\ failure = NoFailure
  /\ cursor = Null
  /\ issues = <<>>
  /\ issuePages = <<>>
  /\ notionRelations = [users |-> <<>>, projects |-> <<>>]
  /\ idx = 0
  /\ pending = NoRequest
  /\ fetches = <<>>
  /\ calls = <<>>
  /\ info = <<>>
  /\ overlapping = NoRun

needsNotionPageUpdateCall ==
  /\ pc = "call"
  /\ returned' = [value |-> needsNotionPageUpdate(argExistingPage, argNewProperties)]
  /\ pc' = "returned"
  /\ UNCHANGED <<world, mirror, run, failure, cursor, issues, issuePages,
                 notionRelations, idx, pending, fetches, calls, info,
                 overlapping, argExistingPage, argNewProperties>>

DiffNext == needsNotionPageUpdateCall

DiffSpec == DiffInit /\ [][DiffNext]_vars

-----------------------------------------------------------------------------
(* action.ts: an opened issue handled from its event payload *)

\* the key the event-payload mapper gives the issue URL
IssueKey == "Issue"

\* the value action.ts getProject stores for one fieldValues node
payloadFieldValueOf(fieldValue) ==
  IF "number" \in DOMAIN fieldValue THEN Num(fieldValue.number)
  ELSE IF "text" \in DOMAIN fieldValue /\ fieldValue.text # ""
  THEN Str(fieldValue.text)
  ELSE IF "name" \in DOMAIN fieldValue /\ fieldValue.name # ""
  THEN Str(fieldValue.name)
  ELSE JsNull

RECURSIVE payloadCustomFieldsOf(_)
payloadCustomFieldsOf(nodes) ==
  IF Len(nodes) = 0 THEN <<>>
  ELSE LET fieldValue == nodes[Len(nodes)]
           before == payloadCustomFieldsOf(SubSeq(nodes, 1, Len(nodes) - 1))
       IN IF "field" \in DOMAIN fieldValue
          THEN (fieldValue.field.name :> payloadFieldValueOf(fieldValue)) @@ before
          ELSE before

\* the projects array action.ts getProject fills, in response order
RECURSIVE matchedProjects(_, _)
matchedProjects(queryProjects, issueNumber) ==
  IF Len(queryProjects) = 0 THEN <<>>
  ELSE LET project == Head(queryProjects)
           found == SelectSeq(project.items.nodes,
                      LAMBDA item : /\ "content" \in DOMAIN item
                                    /\ item.content.issueNumber = issueNumber)
       IN [i \in DOMAIN found |->
             [name |-> project.title,
              url |-> project.url,
              customFields |-> payloadCustomFieldsOf(found[i].fieldValues.nodes)]]
          \o matchedProjects(Tail(queryProjects), issueNumber)

\* action.ts getProject: projects[0]
getFirstProject(queryProjects, issueNumber) ==
  LET projects == matchedProjects(queryProjects, issueNumber)
  IN IF Len(projects) = 0 THEN UndefinedProject ELSE projects[1]

TypeError ==
  [raised |-> "TypeError: Cannot read properties of undefined (reading 'customFields')"]

parsePropertiesFromPayload(payload, userRelations, projects, queryProjects) ==
  LET project == getFirstProject(queryProjects, payload.issue.number)
  IN IF project = UndefinedProject THEN TypeError
     ELSE (Name :> title(payload.issue.title))
          @@ (Status :> status(customField(project, "Status")))
          @@ (Repository :> text(payload.repository.name))
          @@ (Assignee :> person([i \in DOMAIN payload.issue.assignees |->
                                     payload.issue.assignees[i].login],
                                 userRelations))
          @@ (Labels :> multiSelect([i \in DOMAIN payload.issue.labels |->
                                       payload.issue.labels[i].name]))
          @@ (IssueKey :> url(payload.issue.html_url))
          @@ (Project :> relation(customField(project, "Project KEY"), projects))
          @@ (TaskGroup :> text("Development"))

\* the issues event GitHub sends for the issue
payloadOf(is) ==
  [action |-> "opened",
   issue |-> [number |-> is.number,
              title |-> is.title,
              body |-> is.body,
              html_url |-> is.html_url,
              assignees |-> is.assignees.nodes,
              labels |-> is.labels.nodes],
   repository |-> [full_name |-> "Gisat/ptr", name |-> "ptr"]]

\* the boards an opened issue can be on, and what its item holds there
EventProjects ==
  {<<>>, <<ProjectNode(1, 2, <<StatusValue("Todo")>>)>>}
  \cup {<<ProjectNode(1, 1, fs)>> :
          fs \in {<<>>,
                  <<StatusValue("In progress")>>,
                  <<EstimateValue(3)>>,
                  <<ProjectKeyValue("K1")>>,
                  <<ProjectKeyValue("K9")>>,
                  <<StatusValue("In review"), EstimateValue(7),
                    ProjectKeyValue("K1")>>}}

EventInit ==
  /\ \E ls \in LabelLists, as \in {<<>>, <<"alice">>, <<"carol", "bob">>} :
       ghIssues = <<Issue(1, "OPEN", ls, as, NullObject)>>
  /\ ghProjects \in EventProjects
  /\ notionUsers = UserRows
  /\ notionProjects = ProjectRelations
  /\ mirror = <<>>
  /\ inputs = AllInputs
  /\ context = [eventName |-> "issues",
                full_name |-> "Gisat/ptr",
                GITHUB_REPOSITORY |-> "Gisat/ptr"]
  /\ pc = "opened"
  /\ run = 1
  /\ failure = NoFailure
  /\ cursor = Null
  /\ issues = <<>>
  /\ issuePages = <<>>
  /\ notionRelations = [users |-> <<>>, projects |-> <<>>]
  /\ idx = 0
  /\ pending = NoRequest
  /\ fetches = <<>>
  /\ calls = <<>>
  /\ info = <<>>
  /\ overlapping = NoRun
  /\ NoCall

\* handleIssueOpened up to the awaited pages.create
handleIssueOpened ==
  /\ pc = "opened"
  /\ notionRelations' =
       [users |-> getRelationsBetweenGithubAndNotionPersons(notionUsers),
        projects |-> notionProjects]
  /\ fetches' = fetches \o <<[api |-> "relations", run |-> run],
                             [api |-> "projects", run |-> run,
                              issueNumber |-> ghIssues[1].number]>>
  /\ LET parsed == parsePropertiesFromPayload(payloadOf(ghIssues[1]),
                     getRelationsBetweenGithubAndNotionPersons(notionUsers),
                     notionProjects, projectsV2(ghProjects))
     IN IF "raised" \in DOMAIN parsed
        THEN /\ throw(parsed.raised)
             /\ UNCHANGED <<pending, calls>>
        ELSE /\ pending' = [op |-> "create", run |-> run, idx |-> idx,
                            page_id |-> Null, properties |-> parsed]
             /\ calls' = Append(calls, pending')
             /\ pc' = "await"
             /\ UNCHANGED failure
  /\ UNCHANGED <<world, mirror, run, cursor, issues, issuePages, idx, info, aside>>

\* the page of the opened issue is created
issueOpenedPageCreated ==
  /\ pc = "await"
  /\ mirror' = Append(mirror,
                  [id |-> pageId(Len(mirror) + 1),
                   properties |-> writtenProperties(emptyRow, pending.properties)])
  /\ pending' = NoRequest
  /\ pc' = "done"
  /\ UNCHANGED <<world, run, failure, cursor, issues, issuePages,
                 notionRelations, idx, fetches, calls, info, aside>>

EventNext ==
  \/ handleIssueOpened
  \/ issueOpenedPageCreated

EventSpec == EventInit /\ [][EventNext]_vars

-----------------------------------------------------------------------------
(* The project fetches called on their own, for issue 1, on boards whose     *)
(* items and field values can exceed one page                                *)

\* where a board holds issue 1: as its first item, after a full page of other
\* items, as its first item with Status after a full page of other field
\* values, or not at all
BoardShapes == {"first", "deep", "long", "other"}

Board(n, shape) ==
  LET values == <<EstimateValue(n), StatusValue("Todo")>>
      fillers == [k \in 1..FieldValuesPerPage |->
                    [field |-> [name |-> "Field " \o String(k)], text |-> "x"]]
      held(fieldValues) ==
        [content |-> [issueNumber |-> 1, state |-> "OPEN"],
         fieldValues |-> [nodes |-> fieldValues]]
      others == [k \in 1..ItemsPerPage |->
                   [content |-> [issueNumber |-> 1 + k, state |-> "OPEN"],
                    fieldValues |-> [nodes |-> <<>>]]]
  IN [number |-> n,
      title |-> "Board " \o String(n),
      url |-> "https://github.com/orgs/Gisat/projects/" \o String(n),
      items |-> [nodes |->
        CASE shape = "first" -> <<held(values)>>
          [] shape = "deep" -> others \o <<held(values)>>
          [] shape = "long" -> <<held(fillers \o values)>>
          [] OTHER -> others]]

\* up to MaxProjects of the boards 1..MaxBoards, in any order
ProjectInputs ==
  \E ns \in SeqsUpTo(1..MaxBoards, MaxProjects) :
    \E shapes \in [DOMAIN ns -> BoardShapes] :
      /\ \A i, j \in DOMAIN ns : i # j => ns[i] # ns[j]
      /\ ghProjects = [i \in DOMAIN ns |-> Board(ns[i], shapes[i])]

ProjectInit ==
  /\ ProjectInputs
  /\ ghIssues = <<Issue(1, "OPEN", <<>>, <<>>, NullObject)>>
  /\ mirror = <<>>
  /\ Dispatched
  /\ notionUsers = UserRows
  /\ notionProjects = ProjectRelations
  /\ pc = "call"
  /\ run = 1
  /\ failure = NoFailure
  /\ cursor = Null
  /\ issues = <<>>
  /\ issuePages = <<>>
  /\ notionRelations = [users |-> <<>>, projects |-> <<>>]
  /\ idx = 0
  /\ pending = NoRequest
  /\ fetches = <<>>
  /\ calls = <<>>
  /\ info = <<>>
  /\ overlapping = NoRun
  /\ NoCall

\* sync.ts / the later action.ts: getProject
getProjectCall ==
  /\ pc = "call"
  /\ returned' = [by |-> "getProject",
                  value |-> getProject(projectsV2(ghProjects), ghIssues[1].number)]
  /\ pc' = "returned"
  /\ UNCHANGED <<world, mirror, run, failure, cursor, issues, issuePages,
                 notionRelations, idx, pending, fetches, calls, info,
                 overlapping, argExistingPage, argNewProperties>>

\* the earlier action.ts: getProject
getFirstProjectCall ==
  /\ pc = "call"
  /\ returned' = [by |-> "action.ts getProject",
                  value |-> getFirstProject(projectsV2(ghProjects),
                                           ghIssues[1].number)]
  /\ pc' = "returned"
  /\ UNCHANGED <<world, mirror, run, failure, cursor, issues, issuePages,
                 notionRelations, idx, pending, fetches, calls, info,
                 overlapping, argExistingPage, argNewProperties>>

getGithubOgranizationProjectsCall ==
  /\ pc = "call"
  /\ returned' = [by |-> "getGithubOgranizationProjects",
                  value |-> getGithubOgranizationProjects(ghProjects)]
  /\ pc' = "returned"
  /\ UNCHANGED <<world, mirror, run, failure, cursor, issues, issuePages,
                 notionRelations, idx, pending, fetches, calls, info,
                 overlapping, argExistingPage, argNewProperties>>

ProjectNext ==
  \/ getProjectCall
  \/ getFirstProjectCall
  \/ getGithubOgranizationProjectsCall

ProjectSpec == ProjectInit /\ [][ProjectNext]_vars

-----------------------------------------------------------------------------
(* Vocabulary of the properties *)

sameIgnoringCase(a, b) ==
  /\ Len(a) = Len(b)
  /\ \A i \in DOMAIN a :
       \/ a[i] = b[i]
       \/ \E j \in DOMAIN UpperChars :
            {a[i], b[i]} = {UpperChars[j], LowerChars[j]}

carriesLabel(is, label) ==
  \E j \in DOMAIN is.labels.nodes :
    sameIgnoringCase(is.labels.nodes[j].name, label)

\* the boards that hold an item for the issue number
boardsOf(n) ==
  {p \in DOMAIN ghProjects :
     \E i \in DOMAIN ghProjects[p].items.nodes :
       /\ "content" \in DOMAIN ghProjects[p].items.nodes[i]
       /\ ghProjects[p].items.nodes[i].content.issueNumber = n}

\* the Status of the issue's item on its lowest-numbered board, or Null
boardStatus(n) ==
  IF boardsOf(n) = {} THEN Null
  ELSE LET p == CHOOSE q \in boardsOf(n) :
                  \A r \in boardsOf(n) : ghProjects[q].number <= ghProjects[r].number
           items == ghProjects[p].items.nodes
           i == CHOOSE j \in DOMAIN items :
                  /\ "content" \in DOMAIN items[j]
                  /\ items[j].content.issueNumber = n
                  /\ \A h \in 1..(j - 1) :
                       ~("content" \in DOMAIN items[h]
                         /\ items[h].content.issueNumber = n)
           values == items[i].fieldValues.nodes
           st == {j \in DOMAIN values : values[j].field.name = "Status"}
       IN IF st = {} THEN Null
          ELSE values[CHOOSE j \in st : \A h \in st : h <= j].name

\* the snapshot pages whose 'Github issue' URL is the issue's URL
recordsOf(k) ==
  {i \in DOMAIN issuePages :
     issuePages[i].properties[GithubIssue].url = issues[k].html_url}

\* the write requests of the current run for the issue at position k
writesOf(k) == SelectSeq(calls, LAMBDA c : c.run = run /\ c.idx = k)

\* the issues the loop of the current run has left behind
handled == {k \in DOMAIN issues : k < idx}

\* the target property set of the issue at position k
targetOf(k) ==
  getPropertiesFromIssueOrGithubProject(issues[k], notionRelations, ghProjects)

statusNameOf(k) == targetOf(k)[Status].status.name

writtenStatusIs(k, name) ==
  \A i \in DOMAIN writesOf(k) : writesOf(k)[i].properties[Status].status.name = name

plainOpen(k) ==
  /\ issues[k].state = "OPEN"
  /\ ~carriesLabel(issues[k], blocked)
  /\ ~carriesLabel(issues[k], duplicate)

-----------------------------------------------------------------------------
(* Reconciler *)

\* C1: a second run over unchanged upstream data writes nothing: it issues no
\* pages.create and no pages.update, and needsNotionPageUpdate is false for
\* every issue that has a mirror record.
SecondRunWritesNothing ==
  /\ \A i \in DOMAIN calls : calls[i].run = 1
  /\ (run > 1 /\ inLoop /\ alreadyExists) => ~needsUpdate

createdWith(k, statusName) ==
  LET w == writesOf(k)
  IN /\ Len(w) = 1
     /\ w[1].op = "create"
     /\ w[1].properties[Status].status.name = statusName
     /\ Len(w[1].properties[Name].title) = 1
     /\ w[1].properties[Name].title[1].text.content = issues[k].title
     /\ w[1].properties[GithubIssue].url = issues[k].html_url

untrackedInProgress(k) ==
  /\ issues[k].state = "OPEN"
  /\ recordsOf(k) = {}
  /\ Cardinality(boardsOf(issues[k].number)) = 1
  /\ boardStatus(issues[k].number) = "In progress"

\* C2 as stated: an open issue with no mirror record and one matched project
\* item with Status 'In progress' gets exactly one pages.create, no
\* pages.update, with Status 'In progress', Name = title, 'Github issue' = URL.
OpenUntrackedCreatedInProgress ==
  \A k \in handled : untrackedInProgress(k) => createdWith(k, "In progress")

\* C2 amended: the same, for an issue that carries no label equal to 'blocked'
\* or 'duplicate' ignoring case.
PlainOpenUntrackedCreatedInProgress ==
  \A k \in handled :
    (untrackedInProgress(k) /\ plainOpen(k)) => createdWith(k, "In progress")

PlainOpenUntrackedCreatedInProgressWitness ==
  \E k \in handled :
    /\ untrackedInProgress(k)
    /\ plainOpen(k)
    /\ createdWith(k, "In progress")
    /\ \E i \in DOMAIN mirror :
         mirror[i].properties[GithubIssue].url = issues[k].html_url

\* C3: a closed issue whose URL matches no existing mirror record gets no
\* pages.create and no pages.update, whatever its labels, assignees or
\* project data.
ClosedUntrackedNeverWritten ==
  \A k \in DOMAIN issues :
    (issues[k].state = "CLOSED" /\ recordsOf(k) = {}) => writesOf(k) = <<>>

ClosedUntrackedNeverWrittenWitness ==
  /\ pc = "done"
  /\ \E k \in handled :
       /\ issues[k].state = "CLOSED"
       /\ recordsOf(k) = {}
       /\ carriesLabel(issues[k], blocked)
       /\ boardStatus(issues[k].number) = "In progress"
       /\ Len(issues[k].assignees.nodes) > 0
       /\ writesOf(k) = <<>>

\* the snapshot page the issue at position k is tracked by
recordOf(k) == issuePages[CHOOSE i \in recordsOf(k) : \A j \in recordsOf(k) : i <= j]

updatedOnce(k) ==
  /\ Len(writesOf(k)) = 1
  /\ writesOf(k)[1].op = "update"
  /\ writesOf(k)[1].page_id = recordOf(k).id

\* C4: an issue whose URL is the 'Github issue' URL of an existing mirror
\* record gets a pages.update on that record if and only if
\* needsNotionPageUpdate(record, target) is true, never a pages.create, and
\* no write at all when the diff is false.
TrackedUpdatedIffDiff ==
  /\ \A k \in handled :
       recordsOf(k) # {} =>
         IF needsNotionPageUpdate(recordOf(k), targetOf(k))
         THEN updatedOnce(k)
         ELSE writesOf(k) = <<>>
  /\ \A k \in DOMAIN issues :
       recordsOf(k) # {} =>
         \A i \in DOMAIN writesOf(k) : writesOf(k)[i].op = "update"

TrackedUpdatedIffDiffWitness ==
  /\ pc = "done"
  /\ \E k \in handled :
       /\ recordsOf(k) # {}
       /\ needsNotionPageUpdate(recordOf(k), targetOf(k))
       /\ updatedOnce(k)
  /\ \E k \in handled :
       /\ recordsOf(k) # {}
       /\ ~needsNotionPageUpdate(recordOf(k), targetOf(k))
       /\ writesOf(k) = <<>>

\* C5: within one run every issue gets at most one mirror write, and the
\* write for an issue has completed before the next issue is examined.
OneWritePerIssueInOrder ==
  /\ \A i, j \in DOMAIN calls :
       (calls[i].run = calls[j].run /\ calls[i].idx = calls[j].idx) => i = j
  /\ \A i \in DOMAIN calls : calls[i].run = run => calls[i].idx <= idx
  /\ pc = "await" => (pending.op # "none" /\ pending.run = run /\ pending.idx = idx)
  /\ pc # "await" => pending.op = "none"
  /\ \A i \in DOMAIN calls :
       (calls[i].op = "create" /\ calls[i].run = run /\ calls[i].idx < idx) =>
         \E m \in DOMAIN mirror :
           mirror[m].properties[GithubIssue].url = calls[i].properties[GithubIssue].url

OneWritePerIssueInOrderWitness ==
  /\ pc = "loop"
  /\ idx = 3
  /\ Len(writesOf(1)) = 1
  /\ Len(writesOf(2)) = 1
  /\ writesOf(1)[1].op # writesOf(2)[1].op

-----------------------------------------------------------------------------
(* Status rule engine *)

\* C6: a closed issue has derived status 'Done', whatever its labels
\* ('blocked' and 'duplicate' included) and the matched project's Status.
ClosedIsDone ==
  \A k \in DOMAIN issues :
    issues[k].state = "CLOSED" =>
      statusNameOf(k) = "Done" /\ writtenStatusIs(k, "Done")

ClosedIsDoneWitness ==
  \E k \in handled :
    /\ issues[k].state = "CLOSED"
    /\ carriesLabel(issues[k], blocked)
    /\ carriesLabel(issues[k], duplicate)
    /\ boardStatus(issues[k].number) = "In progress"
    /\ Len(writesOf(k)) = 1
    /\ writesOf(k)[1].properties[Status].status.name = "Done"

\* C7: an open issue carrying a label equal to 'blocked' ignoring case has
\* derived status 'Blocked', whether or not it also carries a 'duplicate'
\* label and whatever the matched project's Status.
OpenBlockedIsBlocked ==
  \A k \in DOMAIN issues :
    (issues[k].state = "OPEN" /\ carriesLabel(issues[k], blocked)) =>
      statusNameOf(k) = "Blocked" /\ writtenStatusIs(k, "Blocked")

OpenBlockedIsBlockedWitness ==
  \E k \in handled :
    /\ issues[k].state = "OPEN"
    /\ carriesLabel(issues[k], blocked)
    /\ \A j \in DOMAIN issues[k].labels.nodes : issues[k].labels.nodes[j].name # blocked
    /\ issues[k].labels.nodes[1].name = <<"D","U","P","L","I","C","A","T","E">>
    /\ boardStatus(issues[k].number) = "In review"
    /\ Len(writesOf(k)) = 1
    /\ writesOf(k)[1].properties[Status].status.name = "Blocked"

openDuplicate(k) ==
  /\ issues[k].state = "OPEN"
  /\ ~carriesLabel(issues[k], blocked)
  /\ carriesLabel(issues[k], duplicate)

\* C8 as stated: an open issue with no 'blocked' label that carries a label
\* equal to 'duplicate' ignoring case has target status 'Duplicate'.
OpenDuplicateIsDuplicate ==
  \A k \in DOMAIN issues :
    openDuplicate(k) =>
      statusNameOf(k) = "Duplicate" /\ writtenStatusIs(k, "Duplicate")

\* C8 amended: such an issue has target status 'Discarded'.
OpenDuplicateIsDiscarded ==
  \A k \in DOMAIN issues :
    openDuplicate(k) =>
      statusNameOf(k) = "Discarded" /\ writtenStatusIs(k, "Discarded")

OpenDuplicateIsDiscardedWitness ==
  \E k \in handled :
    /\ openDuplicate(k)
    /\ \A j \in DOMAIN issues[k].labels.nodes : issues[k].labels.nodes[j].name # duplicate
    /\ boardStatus(issues[k].number) = "In progress"
    /\ Len(writesOf(k)) = 1
    /\ writesOf(k)[1].properties[Status].status.name = "Discarded"

\* C9: an open issue with neither a 'blocked' nor a 'duplicate' label has
\* target status 'To be checked' when the matched project's Status is
\* 'In review', 'In progress' when it is 'In progress', and 'Not started'
\* when no project matches or the matched project has no Status value.
PlainOpenFollowsBoard ==
  \A k \in DOMAIN issues :
    plainOpen(k) =>
      LET st == boardStatus(issues[k].number)
      IN /\ st = "In review" =>
              statusNameOf(k) = "To be checked" /\ writtenStatusIs(k, "To be checked")
         /\ st = "In progress" =>
              statusNameOf(k) = "In progress" /\ writtenStatusIs(k, "In progress")
         /\ st = Null =>
              statusNameOf(k) = "Not started" /\ writtenStatusIs(k, "Not started")

PlainOpenFollowsBoardWitness ==
  /\ \E k \in handled :
       /\ plainOpen(k)
       /\ boardStatus(issues[k].number) = "In review"
       /\ Len(writesOf(k)) = 1
       /\ writesOf(k)[1].properties[Status].status.name = "To be checked"
  /\ \E k \in handled :
       /\ plainOpen(k)
       /\ boardsOf(issues[k].number) = {}
       /\ Len(writesOf(k)) = 1
       /\ writesOf(k)[1].properties[Status].status.name = "Not started"

otherBoardStatus(k) ==
  /\ plainOpen(k)
  /\ boardStatus(issues[k].number) \notin {Null, "In review", "In progress"}

\* C10 as stated: an open issue with neither label whose matched project has
\* a Status other than 'In review' and 'In progress' has that Status value,
\* verbatim, as its target status name.
PlainOpenPassesBoardStatus ==
  \A k \in DOMAIN issues :
    otherBoardStatus(k) =>
      LET st == boardStatus(issues[k].number)
      IN statusNameOf(k) = st /\ writtenStatusIs(k, st)

mappedStatus(st) ==
  CASE st = "Done" -> "Done"
    [] st = "Blocked" -> "Blocked"
    [] st = "Duplicate" -> "Discarded"
    [] OTHER -> "Not started"

\* C10 amended: such an issue has target status 'Done' or 'Blocked' when the
\* project Status is exactly that value, 'Discarded' when it is 'Duplicate',
\* and 'Not started' for every other value ('Todo', 'Backlog', ...).
PlainOpenOtherBoardStatusMapped ==
  \A k \in DOMAIN issues :
    otherBoardStatus(k) =>
      LET st == boardStatus(issues[k].number)
      IN statusNameOf(k) = mappedStatus(st) /\ writtenStatusIs(k, mappedStatus(st))

PlainOpenOtherBoardStatusMappedWitness ==
  \E k \in handled :
    /\ otherBoardStatus(k)
    /\ boardStatus(issues[k].number) = "Backlog"
    /\ Len(writesOf(k)) = 1
    /\ writesOf(k)[1].properties[Status].status.name = "Not started"

-----------------------------------------------------------------------------
(* Value mapper *)

\* the items the boards hold for the issue number
itemsOf(n) ==
  UNION {{ghProjects[p].items.nodes[i] :
            i \in {j \in DOMAIN ghProjects[p].items.nodes :
                     /\ "content" \in DOMAIN ghProjects[p].items.nodes[j]
                     /\ ghProjects[p].items.nodes[j].content.issueNumber = n}} :
         p \in boardsOf(n)}

\* the numbers an item holds in fields named Estimate
numericEstimates(item) ==
  {item.fieldValues.nodes[j].number :
     j \in {h \in DOMAIN item.fieldValues.nodes :
              /\ "field" \in DOMAIN item.fieldValues.nodes[h]
              /\ item.fieldValues.nodes[h].field.name = "Estimate"
              /\ "number" \in DOMAIN item.fieldValues.nodes[h]}}

estimatesOf(n) == UNION {numericEstimates(item) : item \in itemsOf(n)}

Maximum(S) == CHOOSE x \in S : \A y \in S : y <= x

\* C11: when an issue is matched by items in several projects, the target
\* 'Estimate hrs' is the maximum of the numeric Estimate values the items
\* supply; items with a null or missing Estimate are ignored.
EstimateIsMaximumOverProjects ==
  \A k \in DOMAIN issues :
    LET es == estimatesOf(issues[k].number)
    IN (Cardinality(boardsOf(issues[k].number)) > 1 /\ es # {}
        /\ Maximum(es) > 0) =>
         /\ EstimateHrs \in DOMAIN targetOf(k)
         /\ targetOf(k)[EstimateHrs] = [type |-> "number",
                                         number |-> Num(Maximum(es))]

\* C12: 'Estimate hrs' is in the target set if and only if a matched project
\* item supplies a positive numeric Estimate, and then with a positive number;
\* it is absent when there is no matched project or the Estimate is missing,
\* null, zero, negative or not a number.
EstimatePresentIffPositiveNumber ==
  \A k \in DOMAIN issues :
    /\ EstimateHrs \in DOMAIN targetOf(k)
         <=> \E e \in estimatesOf(issues[k].number) : e > 0
    /\ EstimateHrs \in DOMAIN targetOf(k) =>
         /\ targetOf(k)[EstimateHrs].number.t = "number"
         /\ targetOf(k)[EstimateHrs].number.v > 0

-----------------------------------------------------------------------------
(* Diff engine *)

\* C13: needsNotionPageUpdate returns true if and only if some key of the
\* target has no property on the existing page or has a comparable string that
\* differs from the existing one; so it returns true when the existing page
\* lacks Status and the target has Status 'Done', and false when every key of
\* the target is on both sides with equal comparable strings.
DiffTrueIffMissingOrDifferent ==
  pc = "returned" =>
    (returned.value <=>
       \E key \in DOMAIN argNewProperties :
         \/ key \notin DOMAIN argExistingPage.properties
         \/ extractComparableValue(argExistingPage.properties[key])
              # extractComparableValue(argNewProperties[key]))

DiffTrueIffMissingOrDifferentWitness ==
  /\ pc = "returned"
  /\ Status \notin DOMAIN argExistingPage.properties
  /\ Status \in DOMAIN argNewProperties
  /\ argNewProperties[Status].status.name = "Done"
  /\ \A key \in DOMAIN argNewProperties \ {Status} :
       /\ key \in DOMAIN argExistingPage.properties
       /\ extractComparableValue(argExistingPage.properties[key])
            = extractComparableValue(argNewProperties[key])
  /\ DOMAIN argNewProperties # {Status}
  /\ returned.value

\* the orders in which a sequence can be held
orderings(seq) ==
  {[i \in DOMAIN seq |-> seq[f[i]]] :
     f \in {g \in [DOMAIN seq -> DOMAIN seq] :
              \A i, j \in DOMAIN seq : i # j => g[i] # g[j]}}

\* the property with the members of its collection in any order
reordered(prop) ==
  IF "multi_select" \in DOMAIN prop
  THEN {[prop EXCEPT !.multi_select = o] : o \in orderings(prop.multi_select)}
  ELSE IF "relation" \in DOMAIN prop
  THEN {[prop EXCEPT !.relation = o] : o \in orderings(prop.relation)}
  ELSE IF "people" \in DOMAIN prop
  THEN {[prop EXCEPT !.people = o] : o \in orderings(prop.people)}
  ELSE {prop}

\* the property sets with the collections of the given keys in any order
RECURSIVE reorderedFrom(_, _)
reorderedFrom(remaining, props) ==
  IF Len(remaining) = 0 THEN {props}
  ELSE UNION {{[m EXCEPT ![Head(remaining)] = r] :
                 r \in reordered(props[Head(remaining)])} :
              m \in reorderedFrom(Tail(remaining), props)}

reorderedSets(props) == reorderedFrom(keys(props), props)

\* C14: for multi_select, relation and people values the order of the option
\* names or linked ids, on either side, never changes the result of
\* needsNotionPageUpdate ({bug, urgent} against {urgent, bug} gives false).
DiffIgnoresOrder ==
  pc = "returned" =>
    \A e \in reorderedSets(argExistingPage.properties),
       t \in reorderedSets(argNewProperties) :
      needsNotionPageUpdate([argExistingPage EXCEPT !.properties = e], t)
        = returned.value

DiffIgnoresOrderWitness ==
  /\ pc = "returned"
  /\ Labels \in DOMAIN argNewProperties
  /\ Labels \in DOMAIN argExistingPage.properties
  /\ argExistingPage.properties[Labels].multi_select = <<[name |-> "bug"], [name |-> "urgent"]>>
  /\ argNewProperties[Labels].multi_select = <<[name |-> "urgent"], [name |-> "bug"]>>
  /\ ~returned.value

restrictedTo(page, ks) ==
  [page EXCEPT !.properties =
     [key \in (DOMAIN page.properties) \cap ks |-> page.properties[key]]]

\* C15: the result of needsNotionPageUpdate depends only on the existing
\* properties whose keys occur in the target: it is the result for the existing
\* page cut down to the keys of the target, and an existing 'Estimate hrs',
\* whatever its value, never forces a write when the target omits the key.
DiffIgnoresOtherProperties ==
  pc = "returned" =>
    /\ needsNotionPageUpdate(
         restrictedTo(argExistingPage, DOMAIN argNewProperties), argNewProperties)
         = returned.value
    /\ EstimateHrs \notin DOMAIN argNewProperties =>
         \A e \in ExistingEstimates :
           needsNotionPageUpdate(
             withProperty(argExistingPage, EstimateHrs, e), argNewProperties)
             = returned.value

DiffIgnoresOtherPropertiesWitness ==
  /\ pc = "returned"
  /\ EstimateHrs \notin DOMAIN argNewProperties
  /\ EstimateHrs \in DOMAIN argExistingPage.properties
  /\ argExistingPage.properties[EstimateHrs].number = Num(7)
  /\ DOMAIN argNewProperties # {}
  /\ ~returned.value

-----------------------------------------------------------------------------
(* Failures *)

isRejected(req) == "rejected" \in DOMAIN req

\* the issues whose iteration the current run has begun
examined ==
  {k \in DOMAIN issues :
     \E i \in DOMAIN fetches :
       /\ fetches[i].api = "projects"
       /\ fetches[i].run = run
       /\ fetches[i].issueNumber = issues[k].number}

\* the current run has ended: no step of it remains
ended == pc \in {"done", "failed"}

\* C16: when the mirror write for an issue fails, the run still processes
\* every later issue of the list and performs the writes those issues need.
WriteFailureLeavesLaterIssuesProcessed ==
  (ended /\ \E i \in DOMAIN calls : calls[i].run = run /\ isRejected(calls[i])) =>
    \A k \in DOMAIN issues :
      /\ k \in examined
      /\ (issues[k].state # "CLOSED" \/ recordsOf(k) # {}) =>
           \/ writesOf(k) # <<>>
           \/ /\ recordsOf(k) # {}
              /\ \A r \in recordsOf(k) : ~needsNotionPageUpdate(issuePages[r], targetOf(k))

\* the rejected page requests of getGitHubIssues in the current run
rejectedIssuesRequests ==
  {i \in DOMAIN fetches :
     fetches[i].api = "issues" /\ fetches[i].run = run /\ isRejected(fetches[i])}

\* C17: when a page request of getGitHubIssues fails, the whole run aborts
\* with that fault: the issues collected so far are not used and the run makes
\* no pages.create and no pages.update call.
FailedIssueFetchAbortsRun ==
  rejectedIssuesRequests # {} =>
    /\ pc = "failed"
    /\ failure = setFailed("GraphqlResponseError")
    /\ rejectedIssuesRequests = {Len(fetches)}
    /\ examined = {}
    /\ idx = 0
    /\ \A i \in DOMAIN calls : calls[i].run # run

FailedIssueFetchAbortsRunWitness ==
  /\ rejectedIssuesRequests # {}
  /\ fetches[Len(fetches)].cursor # Null
  /\ \E k \in DOMAIN issues : issues[k].state = "OPEN" /\ mirror = <<>>
  /\ Len(issues) < Len(ghIssues)

missingInputs == AllInputs \ inputs

repositoryMissing ==
  /\ context.full_name \in {Null, ""}
  /\ context.GITHUB_REPOSITORY \in {Null, ""}

syncEvent == context.eventName \in {"workflow_dispatch", "schedule"}

\* the failure reasons that name a configuration fault of the run
faultReasons(repositoryFault) ==
  {InputRequired(name) : name \in missingInputs}
  \cup IF repositoryFault THEN {NoRepository} ELSE {}

failsBeforeAnyRequest(repositoryFault) ==
  /\ fetches = <<>>
  /\ calls = <<>>
  /\ pc \notin {"getIssues", "getIssuePages", "getRelations", "loop", "await"}
  /\ ended =>
       /\ pc = "failed"
       /\ failure.by = IF "github-token" \in missingInputs THEN "uncaught"
                       ELSE "setFailed"
       /\ failure.message \in faultReasons(repositoryFault)

\* C18 as stated: a missing required input or a missing repository name
\* makes the run fail before any fetch request and any mirror write, with the
\* fault as the failure reason.
ConfigFaultFailsBeforeAnyRequest ==
  (missingInputs # {} \/ repositoryMissing) =>
    failsBeforeAnyRequest(repositoryMissing)

\* C18: a missing required input, or in a run triggered by workflow_dispatch
\* or schedule a missing repository name, makes the run fail before any fetch
\* request and any mirror write, with the fault as the failure reason.
SyncConfigFaultFailsBeforeAnyRequest ==
  (missingInputs # {} \/ (syncEvent /\ repositoryMissing)) =>
    failsBeforeAnyRequest(syncEvent /\ repositoryMissing)

SyncConfigFaultFailsBeforeAnyRequestWitness ==
  /\ missingInputs = {}
  /\ context.eventName = "schedule"
  /\ repositoryMissing
  /\ pc = "failed"
  /\ failure = setFailed(NoRepository)

-----------------------------------------------------------------------------
(* Assignees *)

\* the logins of the assignees of the issue at position k, in order
assigneesOf(k) ==
  [i \in DOMAIN issues[k].assignees.nodes |-> issues[k].assignees.nodes[i].login]

hasEntry(handle) ==
  \E r \in DOMAIN notionRelations.users :
    notionRelations.users[r].githubUsername = handle

\* the user id of the first row of the user relation table for the handle
mirrorUserOf(handle) ==
  LET r == CHOOSE q \in DOMAIN notionRelations.users :
             /\ notionRelations.users[q].githubUsername = handle
             /\ \A h \in 1..(q - 1) :
                  notionRelations.users[h].githubUsername # handle
  IN notionRelations.users[r].notionUserId

expectedPeople(k) ==
  LET matched == SelectSeq(assigneesOf(k), hasEntry)
  IN [i \in DOMAIN matched |-> mirrorUserOf(matched[i])]

peopleIds(props) ==
  [i \in DOMAIN props[Assignee].people |-> props[Assignee].people[i].id]

\* C20: the target Assignee people list holds, in assignee order, the mirror
\* user id of each assignee whose handle has an entry in the user relation
\* table (the first entry of a repeated handle); assignees without an entry
\* are dropped and an issue with no matching assignee gets an empty list.
AssigneesMappedInOrder ==
  \A k \in DOMAIN issues :
    /\ peopleIds(targetOf(k)) = expectedPeople(k)
    /\ \A i \in DOMAIN writesOf(k) :
         peopleIds(writesOf(k)[i].properties) = expectedPeople(k)
    /\ (\A i \in DOMAIN assigneesOf(k) : ~hasEntry(assigneesOf(k)[i])) =>
         targetOf(k)[Assignee].people = <<>>

AssigneesMappedInOrderWitness ==
  /\ 2 \in handled
  /\ assigneesOf(1) = <<"carol">>
  /\ Len(writesOf(1)) = 1
  /\ peopleIds(writesOf(1)[1].properties) = <<>>
  /\ assigneesOf(2) = <<"alice", "carol", "bob">>
  /\ Len(writesOf(2)) = 1
  /\ peopleIds(writesOf(2)[1].properties) = <<"user-b", "user-a">>

-----------------------------------------------------------------------------
(* Data faults *)

\* the field values of the items the boards hold for the issue number
fieldNamesOf(n) ==
  UNION {{item.fieldValues.nodes[j].field.name : j \in DOMAIN item.fieldValues.nodes} :
         item \in itemsOf(n)}

\* the project keys the boards' items give the issue number
projectKeysOf(n) ==
  UNION {{item.fieldValues.nodes[j].text :
            j \in {h \in DOMAIN item.fieldValues.nodes :
                     item.fieldValues.nodes[h].field.name = "Project KEY"}} :
         item \in itemsOf(n)}

keyIsMapped(n) ==
  \E key \in projectKeysOf(n), r \in DOMAIN notionProjects :
    notionProjects[r].projectKey = key

\* what a target set holds for the fields a data fault affects
degraded(n, target, statusFromBoardOnly) ==
  /\ ("Status" \notin fieldNamesOf(n) /\ statusFromBoardOnly) =>
       target[Status].status.name = "Not started"
  /\ ~keyIsMapped(n) => target[Project].relation = <<>>
  /\ "Estimate" \notin fieldNamesOf(n) => EstimateHrs \notin DOMAIN target

\* C19: building the target set for an issue that matches no project item, or
\* whose item lacks Status, Estimate or 'Project KEY', or whose project key has
\* no entry in the project relation table, completes without error and gives
\* Status 'Not started', an empty Project relation and no 'Estimate hrs'; for
\* the batch mapper and for the event-payload mapper.
DataFaultsNeverRaise ==
  \A k \in DOMAIN ghIssues :
    /\ degraded(ghIssues[k].number,
                getPropertiesFromIssueOrGithubProject(
                  ghIssues[k],
                  [users |-> getRelationsBetweenGithubAndNotionUsers(notionUsers),
                   projects |-> notionProjects],
                  ghProjects),
                /\ ghIssues[k].state = "OPEN"
                /\ ~carriesLabel(ghIssues[k], blocked)
                /\ ~carriesLabel(ghIssues[k], duplicate))
    /\ failure = NoFailure
    /\ \A i \in DOMAIN calls :
         degraded(ghIssues[k].number, calls[i].properties, TRUE)

-----------------------------------------------------------------------------
(* The issue fetch *)

\* the type tag of an issue node, Null when it has none
typeTagOf(is) ==
  IF "name" \in DOMAIN is.issueType THEN is.issueType.name ELSE Null

\* the page requests of getGitHubIssues the current run has been answered
answeredIssuesRequests ==
  {i \in DOMAIN fetches :
     fetches[i].api = "issues" /\ fetches[i].run = run /\ ~isRejected(fetches[i])}

\* the issue nodes of the pages that have arrived in the current run
arrived ==
  LET n == IssuesPerPage * Cardinality(answeredIssuesRequests)
  IN SubSeq(ghIssues, 1, IF n < Len(ghIssues) THEN n ELSE Len(ghIssues))

\* C21: no issue whose type tag is 'Feature' is in the list getGitHubIssues
\* collects, on whichever page it arrives, and no pages.create or pages.update
\* call is made for one; the issues with another type tag or with none are all
\* retained, in the order of arrival.
FeatureIssuesNeverMirrored ==
  /\ \A k \in DOMAIN issues : typeTagOf(issues[k]) # "Feature"
  /\ issues = SelectSeq(arrived, LAMBDA is : typeTagOf(is) # "Feature")
  /\ \A i \in DOMAIN calls, k \in DOMAIN ghIssues :
       typeTagOf(ghIssues[k]) = "Feature" =>
         calls[i].properties[GithubIssue].url # ghIssues[k].html_url

FeatureIssuesNeverMirroredWitness ==
  /\ pc = "done"
  /\ \E k \in DOMAIN ghIssues :
       /\ k > IssuesPerPage
       /\ typeTagOf(ghIssues[k]) = "Feature"
  /\ \E k \in DOMAIN issues : typeTagOf(issues[k]) = "Bug"
  /\ \E i \in DOMAIN calls : calls[i].run = run

-----------------------------------------------------------------------------
(* Overlapping runs *)

\* the URL a task page holds in its 'Github issue' property, "" when none
linkOf(page) ==
  IF /\ GithubIssue \in DOMAIN page.properties
     /\ "url" \in DOMAIN page.properties[GithubIssue]
     /\ page.properties[GithubIssue].url # Null
  THEN page.properties[GithubIssue].url
  ELSE ""

\* the records of the task database that hold the URL
recordsHolding(u) == {i \in DOMAIN mirror : linkOf(mirror[i]) = u}

\* the snapshot a run read holds no record with the URL
absentFrom(pages, u) == \A i \in DOMAIN pages : linkOf(pages[i]) # u

createsOf(r, u) ==
  {i \in DOMAIN calls :
     /\ calls[i].run = r
     /\ calls[i].op = "create"
     /\ calls[i].properties[GithubIssue].url = u}

bothEnded == pc = "done" /\ overlapping # NoRun /\ overlapping.pc = "done"

\* an open issue the runs fetched that neither run found in the task database
racedOn(k) ==
  /\ bothEnded
  /\ ghIssues[k].state = "OPEN"
  /\ typeTagOf(ghIssues[k]) # "Feature"
  /\ absentFrom(issuePages, ghIssues[k].html_url)
  /\ absentFrom(overlapping.issuePages, ghIssues[k].html_url)

\* C22: nothing keeps two overlapping runs apart: while one run is about to
\* read the task database, awaits a write to it or has ended, the other run can
\* go on; and when both runs read the task database before either has written
\* the record of an open untracked issue, each run creates a record for it, so
\* the task database ends with two records that hold the same issue URL.
OverlappingRunsBothCreate ==
  /\ (/\ overlapping # NoRun
      /\ overlapping.pc # "done"
      /\ pc \in {"getIssuePages", "await", "done"}) => ENABLED resume
  /\ \A k \in DOMAIN ghIssues :
       racedOn(k) =>
         /\ Cardinality(recordsHolding(ghIssues[k].html_url)) = 2
         /\ Cardinality(createsOf(run, ghIssues[k].html_url)) = 1
         /\ Cardinality(createsOf(overlapping.run, ghIssues[k].html_url)) = 1

OverlappingRunsBothCreateWitness ==
  /\ \E k \in DOMAIN ghIssues : racedOn(k)
  /\ \E i, j \in DOMAIN mirror :
       /\ i # j
       /\ linkOf(mirror[i]) # ""
       /\ linkOf(mirror[i]) = linkOf(mirror[j])

-----------------------------------------------------------------------------
(* Order of the fetches *)

\* the requests of one kind the current run has issued
requestsOf(api) ==
  {i \in DOMAIN fetches : fetches[i].api = api /\ fetches[i].run = run}

\* the for loop over the issues has been entered
iterating == idx >= 1

\* C23: the issue source, the project source, the mirror state reader and the
\* relation resolver each run once per run and are done before the first issue
\* is examined: from then on the run has issued the page requests of the issue
\* list, one task-database read, one relation read and one project fetch, and
\* issues no further project request, however many issues it examines.
FetchesPrecedeIteration ==
  iterating =>
    /\ Cardinality(requestsOf("issues")) = PageCount
    /\ Cardinality(requestsOf("tasks")) = 1
    /\ Cardinality(requestsOf("relations")) = 1
    /\ Cardinality(requestsOf("projects")) = 1

-----------------------------------------------------------------------------
(* Pagination of the issue fetch *)

\* the page requests of getGitHubIssues in the current run, in order
issuesRequests ==
  SelectSeq(fetches, LAMBDA f : f.api = "issues" /\ f.run = run)

\* the nodes of the first n pages GitHub serves
firstPages(n) ==
  SubSeq(ghIssues, 1, IF n * IssuesPerPage < Len(ghIssues)
                      THEN n * IssuesPerPage ELSE Len(ghIssues))

retained(nodes) == SelectSeq(nodes, LAMBDA is : typeTagOf(is) # "Feature")

\* page n is the last one: GitHub reports hasNextPage = false with it
isLastPage(n) == n * IssuesPerPage >= Len(ghIssues)

CursorsChainAndDrain ==
  /\ \A j \in DOMAIN issuesRequests :
       /\ issuesRequests[j].cursor = IF j = 1 THEN Null ELSE endCursorOf(j - 1)
       /\ j > 1 => ~isLastPage(j - 1)
  /\ issues = retained(firstPages(Len(issuesRequests)))
  /\ pc # "getIssues" <=>
       (issuesRequests # <<>> /\ isLastPage(Len(issuesRequests)))
  /\ pc # "getIssues" => issues = retained(ghIssues)

\* C24: the first page request of getGitHubIssues carries no cursor and every
\* later one the endCursor of the page before it; the loop goes on while the
\* last page reported hasNextPage = true and stops with the first page that
\* reports false; the list returned is the non-excluded issues of all the
\* pages, in page order; and the fetch does return.
IssuePagesDrained ==
  /\ []CursorsChainAndDrain
  /\ <>(pc = "getIssuePages")

IssuePagesDrainedWitness ==
  /\ pc = "getIssuePages"
  /\ Len(issuesRequests) >= 3
  /\ issuesRequests[3].cursor = endCursorOf(2)
  /\ Len(issues) >= 2
  /\ Len(issues) < Len(ghIssues)

-----------------------------------------------------------------------------
(* The project fetches *)

\* the number of the issue the project fetch is called for
wanted == ghIssues[1].number

holdsIssue(item, n) ==
  "content" \in DOMAIN item /\ item.content.issueNumber = n

\* the boards, among the given ones, with an item for the issue
holders(projects, n) ==
  {p \in DOMAIN projects :
     \E i \in DOMAIN projects[p].items.nodes :
       holdsIssue(projects[p].items.nodes[i], n)}

\* the names of the fields the board's first item for the issue has a value of
valuedFields(project, n) ==
  LET nodes == project.items.nodes
      i == CHOOSE j \in DOMAIN nodes :
             /\ holdsIssue(nodes[j], n)
             /\ \A h \in 1..(j - 1) : ~holdsIssue(nodes[h], n)
  IN {nodes[i].fieldValues.nodes[v].field.name :
        v \in DOMAIN nodes[i].fieldValues.nodes}

lookups == {"getProject", "action.ts getProject"}

\* what the fetch returned for the issue: board names with their field maps
foundFor(n) ==
  IF returned.by \in lookups
  THEN IF returned.value = UndefinedProject THEN {}
       ELSE {[name |-> returned.value.name,
              customFields |-> returned.value.customFields]}
  ELSE UNION {{[name |-> returned.value[p].name,
                customFields |-> returned.value[p].issues[i].customFields] :
                 i \in {j \in DOMAIN returned.value[p].issues :
                          returned.value[p].issues[j].issueNumber = n}} :
              p \in DOMAIN returned.value}

boardNamed(name) ==
  ghProjects[CHOOSE p \in DOMAIN ghProjects : ghProjects[p].title = name]

\* C25: the project fetch returns the item of an issue wherever the item sits
\* in a board's item list, with every field value the item has, wherever the
\* value sits in the item's list of values: for getProject, an issue held by
\* some board is found on a board, and for getGithubOgranizationProjects it is
\* found on every board that holds it.
NestedCursorsDrained ==
  pc = "returned" =>
    /\ holders(ghProjects, wanted) # {} => foundFor(wanted) # {}
    /\ returned.by \notin lookups =>
         \A p \in holders(ghProjects, wanted) :
           \E f \in foundFor(wanted) : f.name = ghProjects[p].title
    /\ \A f \in foundFor(wanted) :
         valuedFields(boardNamed(f.name), wanted) \subseteq DOMAIN f.customFields

\* the boards that hold the issue among the items the project pages returned
returnedHolders == holders(projectsV2(ghProjects), wanted)

\* C26: getProject returns the data of the board with the smallest number
\* among the boards whose returned items hold the issue, in whichever order
\* the pages returned the boards, and undefined exactly when no returned item
\* holds the issue.
SmallestProjectNumberWins ==
  (pc = "returned" /\ returned.by \in lookups) =>
    IF returnedHolders = {}
    THEN returned.value = UndefinedProject
    ELSE /\ returned.value # UndefinedProject
         /\ \E p \in returnedHolders :
              /\ \A q \in returnedHolders :
                   ghProjects[p].number <= ghProjects[q].number
              /\ returned.value.name = ghProjects[p].title
              /\ returned.value.url = ghProjects[p].url

\* what the loop does with the issue at position k when it looks the issue up
\* in the given pages: update the first page that holds the issue's URL if the
\* diff is true, leave it if not, create a page for an open issue that no page
\* holds, and skip a closed one
decisionOver(pages, k) ==
  LET holding == {i \in DOMAIN pages : linkOf(pages[i]) = issues[k].html_url}
      found == pages[CHOOSE i \in holding : \A j \in holding : i <= j]
  IN IF holding # {}
     THEN IF needsNotionPageUpdate(found, targetOf(k))
          THEN [op |-> "update", page_id |-> found.id]
          ELSE [op |-> "leave"]
     ELSE IF issues[k].state # "CLOSED"
          THEN [op |-> "create", page_id |-> Null]
          ELSE [op |-> "skip"]

\* no write request of the current run has been issued: the task database is
\* the one the run read
unwritten == \A i \in DOMAIN calls : calls[i].run # run

\* the write request the current run issued for the issue at position k is the
\* one the decision asks for
actsOn(decision, k) ==
  IF decision.op \in {"update", "create"}
  THEN /\ Len(writesOf(k)) = 1
       /\ writesOf(k)[1].op = decision.op
       /\ writesOf(k)[1].page_id = decision.page_id
  ELSE writesOf(k) = <<>>

\* C27: the 'Github issue is not empty' filter of the task database read changes
\* no decision: for every fetched issue the loop decides over the filtered
\* pages what it would decide over all pages of the task database, and the
\* writes of the run are the ones decided over the filtered pages.
UrlFilterChangesNoDecision ==
  /\ (idx >= 1 /\ unwritten) =>
       \A k \in DOMAIN issues : decisionOver(issuePages, k) = decisionOver(mirror, k)
  /\ idx >= 1 => \A k \in handled : actsOn(decisionOver(issuePages, k), k)

UrlFilterChangesNoDecisionWitness ==
  /\ pc = "done"
  /\ \E i, j \in DOMAIN mirror, k \in DOMAIN issues :
       /\ i < j
       /\ linkOf(mirror[i]) = ""
       /\ linkOf(mirror[j]) = issues[k].html_url
       /\ \E c \in DOMAIN calls :
            /\ calls[c].run = run
            /\ calls[c].op = "update"
            /\ calls[c].page_id = mirror[j].id
       /\ Len(issuePages) < j

\* the rows of the users relation database that hold a GitHub url with a last
\* segment and a non-empty people list
validRows ==
  {i \in DOMAIN notionUsers :
     /\ notionUsers[i].properties.GitHub.url # <<>>
     /\ notionUsers[i].properties.GitHub.url[Len(notionUsers[i].properties.GitHub.url)] # ""
     /\ notionUsers[i].properties.Name.people # <<>>}

pairOf(row) ==
  [githubUsername |-> row.properties.GitHub.url[Len(row.properties.GitHub.url)],
   notionUserId |-> row.properties.Name.people[1].id]

\* C28: once the relations are read, every valid row of the users relation
\* database has its (handle, mirror-user-id) pair among the user relations, the
\* handle being the last path segment of the row's GitHub url, wherever the row
\* lies in the paginated result; and every user relation comes from a valid row.
EveryValidUserRowResolved ==
  idx >= 1 =>
    /\ \A i \in validRows :
         \E j \in DOMAIN notionRelations.users :
           notionRelations.users[j] = pairOf(notionUsers[i])
    /\ \A j \in DOMAIN notionRelations.users :
         \E i \in validRows : notionRelations.users[j] = pairOf(notionUsers[i])

\* the lines the current run logged for its issues
outcomes == SelectSeq(info, LAMBDA line : line.run = run)

outcomeOf(decision) ==
  CASE decision.op = "create" -> "Created task"
    [] decision.op = "update" -> "Updated task"
    [] decision.op = "leave" -> "No update needed"
    [] OTHER -> "Skipping closed issue"

\* the issues left behind have one outcome each, in list order; the outcome is
\* the one decided from the issue, its target properties and the pages read at
\* the start of the run, and the write of the run for the issue is that one
OutcomesInOrder ==
  idx >= 1 =>
    /\ idx <= Len(issues) + 1
    /\ Len(outcomes) = idx - 1
    /\ \A k \in DOMAIN outcomes :
         /\ outcomes[k].idx = k
         /\ outcomes[k].message = outcomeOf(decisionOver(issuePages, k))
         /\ actsOn(decisionOver(issuePages, k), k)
    /\ pc = "done" => Len(outcomes) = Len(issues)

\* C29: in a run in which no request fails every issue of the fetched list is
\* examined once, in list order, and has exactly one outcome among created,
\* updated, not needing an update and skipped as closed, which is a function of
\* the issue, its project data, the relation tables and the pages read at the
\* start of the run; and the run ends after the last issue.
EveryIssueOneOutcome == []OutcomesInOrder /\ ((pc = "loop") ~> (pc = "done"))

EveryIssueOneOutcomeWitness ==
  /\ pc = "done"
  /\ failure = NoFailure
  /\ Len(issues) = MaxIssues
  /\ Len(outcomes) = Len(issues)
  /\ \E j, k \in DOMAIN outcomes : outcomes[j].message # outcomes[k].message

\* no two of the pages hold the same non-empty issue URL
uniqueLinks(pages) ==
  \A i, j \in DOMAIN pages :
    (linkOf(pages[i]) # "" /\ linkOf(pages[i]) = linkOf(pages[j])) => i = j

uniqueUrls(is) ==
  \A i, j \in DOMAIN is : is[i].html_url = is[j].html_url => i = j

\* the write requests of the current run
writes == {i \in DOMAIN calls : calls[i].run = run}

\* the pages the run read
snapshotIds == {issuePages[i].id : i \in DOMAIN issuePages}

\* C30: a run that read pages of which no two hold the same non-empty issue URL,
\* for fetched issues of which no two have the same URL, leaves a task database
\* in which no two records hold the same non-empty issue URL; every record it
\* creates holds the URL of an open fetched issue that no page it read holds,
\* and every update goes to the page it read that holds the issue's URL.
UrlUniquenessPreserved ==
  (idx >= 1 /\ uniqueLinks(issuePages) /\ uniqueUrls(issues)) =>
    /\ uniqueLinks(mirror)
    /\ \A c \in writes :
         /\ calls[c].idx \in DOMAIN issues
         /\ calls[c].properties[GithubIssue].url = issues[calls[c].idx].html_url
         /\ calls[c].op = "create" =>
              /\ issues[calls[c].idx].state = "OPEN"
              /\ absentFrom(issuePages, issues[calls[c].idx].html_url)
         /\ calls[c].op = "update" =>
              \E i \in DOMAIN issuePages :
                /\ issuePages[i].id = calls[c].page_id
                /\ linkOf(issuePages[i]) = issues[calls[c].idx].html_url
    /\ \A m \in DOMAIN mirror :
         (linkOf(mirror[m]) # "" /\ mirror[m].id \notin snapshotIds) =>
           \E c \in writes :
             /\ calls[c].op = "create"
             /\ calls[c].properties[GithubIssue].url = linkOf(mirror[m])

UrlUniquenessPreservedWitness ==
  /\ pc = "done"
  /\ uniqueLinks(issuePages)
  /\ \E c, d \in writes : calls[c].op = "create" /\ calls[d].op = "update"
  /\ \E m, n \in DOMAIN mirror :
       /\ m # n
       /\ linkOf(mirror[m]) # ""
       /\ linkOf(mirror[n]) # ""
       /\ mirror[m].id \notin snapshotIds

====
